---- MODULE Spec2Model ----
(***************************************************************************)
(* Model of the AWX controller access layer of awx-mcp-server:             *)
(*   - RestAWXClient._request, the retrying Request Client                 *)
(*   - RestAWXClient.get_job_stdout / get_job_events, the output retriever *)
(*   - RestAWXClient._parse_extra_vars / _parse_job, extra_vars decoding   *)
(*   - utils/parsing.py analyze_job_failure, the Failure Classifier        *)
(*   - RestAWXClient.update_project, the project update poll loop          *)
(* The controller and the network are the environment: every HTTP call's   *)
(* outcome is drawn from a small set.                                       *)
(***************************************************************************)
EXTENDS Integers, Sequences, FiniteSets, TLC

VARIABLES
    build,           \* which copy of rest_client.py runs: "server" or "bundled"
    pc,              \* position of the _request call: "idle", "attempt", "done"
    caller,          \* who called _request: "direct" or "get_job_events"
    method,          \* HTTP method of the _request call
    endpoint,        \* endpoint of the _request call
    params,          \* query parameters of the _request call
    attempt_number,  \* tenacity's attempt counter (1-based)
    calls,           \* every HTTP call sent so far, with what the attempt made of it
    sleeps,          \* the backoff delays slept so far, in seconds
    outcome,         \* what _request handed to its caller
    jobEvents,       \* controller: the job's events, in counter order (stdout fields)
    tail_lines,      \* get_job_stdout argument
    so_pc,           \* position of get_job_stdout: "idle", "events", "done"
    so_result,       \* what get_job_stdout handed to its caller
    so_full,         \* the text get_job_stdout assembled before tail truncation
    ev_input,        \* controller payload holding the extra_vars under test
    ev_result,       \* outcome of reading a job template / a job from ev_input
    an_job_id,       \* analyze_job_failure argument: the job id
    an_events,       \* analyze_job_failure argument: the job's events, in order
    an_result,       \* what analyze_job_failure handed to its caller
    up_pc,           \* position of update_project: "idle", "poll", "sleep", "done"
    up_wait,         \* update_project argument: wait
    up_data,         \* update_project: the launch response (data)
    up_polls,        \* update_project: number of status polls answered so far
    up_status,       \* update_project: status seen by the latest poll
    up_sleeps,       \* update_project: number of one-second sleeps so far
    up_result,       \* what update_project handed to its caller
    cfg_envs,        \* ConfigManager._environments, in insertion (dict) order
    cfg_active,      \* ConfigManager._active_env
    cfg_op,          \* the latest ConfigManager call and its arguments
    cfg_result,      \* what the latest ConfigManager call handed to its caller
    lt_templates,    \* controller: the job templates, in listing order
    lt_calls,        \* the list_job_templates calls so far: arguments and, once over, result
    tl_pc,           \* position of the awx_job_launch tool
    tl_in,           \* what the tool call finds: config, keyring, environment variables
    tl_client,       \* what get_active_client handed to the tool
    tl_log,          \* log lines written by get_active_client and the client
    tl_sent,         \* requests the tool's client sent to the controller
    tl_pending,      \* how the tool's `async with client:` block was left
    tl_result        \* what the tool call ended with

vars == <<build, pc, caller, method, endpoint, params, attempt_number, calls, sleeps,
          outcome, jobEvents, tail_lines, so_pc, so_result, so_full,
          ev_input, ev_result, an_job_id, an_events, an_result,
          up_pc, up_wait, up_data, up_polls, up_status, up_sleeps, up_result,
          cfg_envs, cfg_active, cfg_op, cfg_result, lt_templates, lt_calls,
          tl_pc, tl_in, tl_client, tl_log, tl_sent, tl_pending, tl_result>>

requestVars == <<pc, caller, method, endpoint, params, attempt_number, calls, sleeps, outcome>>
stdoutVars == <<jobEvents, tail_lines, so_pc, so_result, so_full>>
extraVars == <<ev_input, ev_result>>
analysisVars == <<an_job_id, an_events, an_result>>
updateVars == <<up_pc, up_wait, up_data, up_polls, up_status, up_sleeps, up_result>>
configVars == <<cfg_envs, cfg_active, cfg_op, cfg_result>>
listVars == <<lt_templates, lt_calls>>
toolVars == <<tl_pc, tl_in, tl_client, tl_log, tl_sent, tl_pending, tl_result>>
frontVars == <<configVars, listVars, toolVars>>

----
\* Values shared by every part of the model.

None == "None"                  \* Python None / an absent JSON field
NoText == <<"<no text>">>       \* placeholder where no text applies
NoTail == -1                    \* tail_lines=None
Min(a, b) == IF a < b THEN a ELSE b
Max(a, b) == IF a > b THEN a ELSE b

\* Text is a sequence of characters; "\n" is the newline character.
NL == "\n"

RECURSIVE Join(_, _)
\* sep.join(parts) for a sequence of texts.
Join(parts, sep) ==
    IF Len(parts) = 0 THEN <<>>
    ELSE IF Len(parts) = 1 THEN parts[1]
    ELSE parts[1] \o sep \o Join(Tail(parts), sep)

RECURSIVE SplitFrom(_, _, _)
SplitFrom(text, i, cur) ==
    IF i > Len(text) THEN <<cur>>
    ELSE IF text[i] = NL THEN <<cur>> \o SplitFrom(text, i + 1, <<>>)
    ELSE SplitFrom(text, i + 1, Append(cur, text[i]))

\* text.split("\n"): always at least one element; "" splits to [""].
Split(text) == SplitFrom(text, 1, <<>>)

\* lines[-n:] for n >= 1: the last min(n, len) elements.
LastN(lines, n) ==
    SubSeq(lines, Max(1, Len(lines) - n + 1), Len(lines))

\* The characters of a string literal, one element each.
Text(s) == [i \in 1..Len(s) |-> SubSeq(s, i, i)]

\* str.lower() of one character.
LowerChar(c) ==
    CASE c = "A" -> "a" [] c = "B" -> "b" [] c = "C" -> "c" [] c = "D" -> "d"
      [] c = "E" -> "e" [] c = "F" -> "f" [] c = "G" -> "g" [] c = "H" -> "h"
      [] c = "I" -> "i" [] c = "J" -> "j" [] c = "K" -> "k" [] c = "L" -> "l"
      [] c = "M" -> "m" [] c = "N" -> "n" [] c = "O" -> "o" [] c = "P" -> "p"
      [] c = "Q" -> "q" [] c = "R" -> "r" [] c = "S" -> "s" [] c = "T" -> "t"
      [] c = "U" -> "u" [] c = "V" -> "v" [] c = "W" -> "w" [] c = "X" -> "x"
      [] c = "Y" -> "y" [] c = "Z" -> "z"
      [] OTHER -> c

\* text.lower()
Lower(t) == [i \in 1..Len(t) |-> LowerChar(t[i])]

\* pattern in text: the pattern occurs at some position of the text, character
\* by character.
In(pattern, t) ==
    \E i \in 1..(Len(t) - Len(pattern) + 1) :
        \A j \in 1..Len(pattern) : t[i + j - 1] = pattern[j]

----
\* Error values: the exception class and the message template with its parts.

Err(cls, msg, ep, status, detail) ==
    [cls |-> cls, msg |-> msg, endpoint |-> ep, status |-> status, detail |-> detail]

\* An exception with its message and the text interpolated at its end.
ToolErr(cls, msg, detail) == Err(cls, msg, None, 0, detail)

NoOutcome == [kind |-> "none", value |-> None, error |-> Err(None, None, None, 0, None)]
Returned(v) == [kind |-> "return", value |-> v, error |-> Err(None, None, None, 0, None)]
Raised(e) == [kind |-> "raise", value |-> None, error |-> e]

----
\* The controller and the network, as seen through httpx.

\* A decoded JSON document, as far as the client looks into it.
JsonObject(has_detail, detail, has_results, results) ==
    [type |-> "object", has_detail |-> has_detail, detail |-> detail,
     has_results |-> has_results, results |-> results]
JsonArray == [type |-> "array", has_detail |-> FALSE, detail |-> None,
              has_results |-> FALSE, results |-> <<>>]
JsonInvalid == [type |-> "invalid", has_detail |-> FALSE, detail |-> None,
                has_results |-> FALSE, results |-> <<>>]

\* A response body: its raw text and what json decoding of that text gives.
Body(text, json) == [text |-> text, json |-> json]
BodyDetail == Body("{\"detail\": \"Not found.\"}", JsonObject(TRUE, "Not found.", FALSE, <<>>))
BodyObject == Body("{\"id\": 7}", JsonObject(FALSE, None, FALSE, <<>>))
BodyArray == Body("[1, 2]", JsonArray)
BodyText == Body("<html>Bad Gateway</html>", JsonInvalid)
NoBody == Body("", JsonInvalid)
Bodies == {BodyDetail, BodyObject, BodyArray, BodyText}

Statuses == {200, 302, 400, 401, 403, 404, 500}

\* What one self.client.request call can produce.
Response(status, body) == [kind |-> "response", status |-> status, body |-> body]
NetError(k) == [kind |-> k, status |-> 0, body |-> NoBody]
ConnectError == NetError("ConnectError")
TimeoutException == NetError("TimeoutException")
OtherError == NetError("OtherError")    \* another httpx.HTTPError, such as ReadError
NetErrors == {ConnectError, TimeoutException, OtherError}

NoParams == [page |-> 0, page_size |-> 0, order_by |-> None]

\* One page of a listing the controller keeps in order.
Page(items, page, page_size) ==
    SubSeq(items, (page - 1) * page_size + 1, Min(page * page_size, Len(items)))

\* The job_events item the controller returns for the i-th event of the job.
EventItem(i, stdout) == [id |-> i, event |-> "runner_on_ok", stdout |-> stdout]

\* The envelope the controller answers to GET job_events with (order_by=counter).
EventsBody(events, p) ==
    Body("{\"results\": [...]}",
         JsonObject(FALSE, None, TRUE,
                    Page([i \in 1..Len(events) |-> EventItem(i, events[i])],
                         p.page, p.page_size)))

\* Outcomes of one HTTP call of a plain _request.
DirectOutcomes ==
    NetErrors \cup {Response(s, b) : s \in Statuses, b \in Bodies}

\* Outcomes of one HTTP call of get_job_events' _request.
EventsOutcomes(events, p) ==
    {ConnectError, TimeoutException}
        \cup {Response(200, EventsBody(events, p)), Response(200, BodyArray)}
        \cup {Response(s, BodyDetail) : s \in {401, 404, 500}}

----
\* RestAWXClient._request: one attempt.

\* error_detail: the JSON "detail" field when the body decodes to an object that
\* has one, the raw text otherwise.
ErrorDetail(body) ==
    IF body.json.type = "object" /\ body.json.has_detail
    THEN body.json.detail
    ELSE body.text

\* The bundled copy has no branch of its own for 404.
Has404Branch(b) == b = "server"

\* The exception a response status raises; status < 400 raises none.
StatusError(b, ep, resp) ==
    IF resp.status = 401
    THEN Err("AWXAuthenticationError", "Authentication failed", None, 0, None)
    ELSE IF resp.status = 403
    THEN Err("AWXAuthenticationError", "Permission denied", None, 0, None)
    ELSE IF resp.status = 404 /\ Has404Branch(b)
    THEN Err("AWXClientError", "Endpoint not found", ep, 0, ErrorDetail(resp.body))
    ELSE Err("AWXClientError", "API error", None, resp.status, ErrorDetail(resp.body))

IsErrorStatus(status) == status >= 400

\* The body of _request for one HTTP outcome: what the attempt returns or raises.
RequestOnce(b, ep, net) ==
    IF net.kind = "ConnectError"
    THEN Raised(Err("AWXConnectionError", "Failed to connect to AWX", None, 0, None))
    ELSE IF net.kind = "TimeoutException"
    THEN Raised(Err("AWXConnectionError", "Request timeout", None, 0, None))
    ELSE IF net.kind = "OtherError"
    THEN Raised(Err("AWXClientError", "Request failed", None, 0, None))
    ELSE IF IsErrorStatus(net.status)
    THEN Raised(StatusError(b, ep, net))
    ELSE IF net.body.json.type = "invalid"
    THEN Raised(Err("AWXClientError", "Request failed", None, 0, None))
    ELSE Returned(net.body.json)

----
\* The tenacity decorator of _request:
\*   @retry(stop=stop_after_attempt(3), wait=wait_exponential(multiplier=1, min=2, max=10)[, reraise=True])

MaxAttempts == 3
WaitMultiplier == 1
WaitMin == 2
WaitMax == 10

\* No retry= argument: tenacity's default retries on every exception.
RetryPredicate(attempt) == attempt.kind = "raise"

\* Mutation: the decorator allows one attempt more.
StopAfterAttempt_Late(n) == n >= MaxAttempts + 1

\* Mutation: the decorator gives up one attempt early.
StopAfterAttempt_Early(n) == n >= MaxAttempts - 1

StopAfterAttempt(n) == n >= MaxAttempts

WaitExponential(n) ==
    Max(Max(0, WaitMin), Min(WaitMultiplier * 2 ^ (n - 1), WaitMax))

\* reraise=True is set in the server copy only.
Reraise(b) == b = "server"

RetryError == Err("RetryError", "RetryError", None, 0, None)

\* What the decorator raises once the stop condition holds.
Exhausted(b, attempt) == IF Reraise(b) THEN attempt ELSE Raised(RetryError)

----
\* Actions of the Request Client.

Requests == {[method |-> "GET", endpoint |-> "/api/v2/ping/"],
             [method |-> "POST", endpoint |-> "/api/v2/jobs/1/cancel/"]}

\* A caller invokes _request(method, endpoint).
CallRequest ==
    /\ pc = "idle"
    /\ so_pc = "idle"
    /\ \E r \in Requests :
        /\ method' = r.method
        /\ endpoint' = r.endpoint
    /\ params' = NoParams
    /\ caller' = "direct"
    /\ pc' = "attempt"
    /\ attempt_number' = 1
    /\ UNCHANGED <<build, calls, sleeps, outcome, stdoutVars, extraVars, analysisVars, updateVars, frontVars>>

\* The "project" entry of a job_templates item: whether the key is there, the
\* Python type of its value (the controller writes null for a template whose
\* project was deleted) and the id.
ProjectValue(present, type, id) == [present |-> present, type |-> type, id |-> id]

\* The "extra_vars" entry of a job template or job: whether the key is there, the
\* Python type of its value and its text.
ExtraVars(present, type, text) == [present |-> present, type |-> type, text |-> text]

\* The job_templates item the controller returns for its i-th template.
TemplateItem(i, project, extra_vars) ==
    [id |-> i, name |-> "template", project |-> project, playbook |-> "site.yml",
     extra_vars |-> extra_vars]

\* The envelope the controller answers to GET job_templates with.
TemplatesBody(templates, p) ==
    Body("{\"count\": ..., \"results\": [...]}",
         JsonObject(FALSE, None, TRUE, Page(templates, p.page, p.page_size)))

\* Outcomes of one HTTP call of list_job_templates' _request: a page past the end
\* of the listing is answered 404.
ListOutcomes(templates, p) ==
    {TimeoutException, Response(500, BodyDetail),
     IF p.page > 1 /\ (p.page - 1) * p.page_size >= Len(templates)
     THEN Response(404, BodyDetail)
     ELSE Response(200, TemplatesBody(templates, p))}

\* The launch was accepted (the controller created the job and answered 201) but
\* the answer did not arrive in time: httpx raises a ReadTimeout, a TimeoutException.
LostResponse == [kind |-> "TimeoutException", status |-> 201, body |-> NoBody]

\* Outcomes of one HTTP call of launch_job's _request.
LaunchOutcomes == DirectOutcomes \cup {LostResponse}

\* The HTTP outcomes the environment can answer the pending call with.
Outcomes ==
    IF caller = "get_job_events" THEN EventsOutcomes(jobEvents, params)
    ELSE IF caller = "launch_job" THEN LaunchOutcomes
    ELSE IF caller = "list_job_templates" THEN ListOutcomes(lt_templates, params)
    ELSE DirectOutcomes

\* One attempt of _request and the decorator's decision about it.
RequestAttempt ==
    /\ pc = "attempt"
    /\ \E net \in Outcomes :
        LET attempt == RequestOnce(build, endpoint, net) IN
        /\ calls' = Append(calls, [endpoint |-> endpoint, outcome |-> net,
                                    result |-> attempt])
        /\ IF ~RetryPredicate(attempt)
           THEN /\ outcome' = attempt
                /\ pc' = "done"
                /\ UNCHANGED <<attempt_number, sleeps>>
           ELSE IF StopAfterAttempt(attempt_number)
           THEN /\ outcome' = Exhausted(build, attempt)
                /\ pc' = "done"
                /\ UNCHANGED <<attempt_number, sleeps>>
           ELSE /\ sleeps' = Append(sleeps, WaitExponential(attempt_number))
                /\ attempt_number' = attempt_number + 1
                /\ UNCHANGED <<outcome, pc>>
    /\ UNCHANGED <<build, caller, method, endpoint, params, stdoutVars, extraVars, analysisVars, updateVars, frontVars>>

Builds == {"server", "bundled"}

NoEvInput == [record |-> None, present |-> FALSE, type |-> None, text |-> <<>>]

\* analyze_job_failure has not been called.
AnalysisIdle ==
    /\ an_job_id = 0
    /\ an_events = <<>>
    /\ an_result = NoOutcome

\* update_project has not been called.
UpdateIdle ==
    /\ up_pc = "idle"
    /\ up_wait = FALSE
    /\ up_data = NoOutcome
    /\ up_polls = 0
    /\ up_status = None
    /\ up_sleeps = 0
    /\ up_result = NoOutcome

\* Python None where an EnvironmentConfig is expected.
NoEnv == [name |-> None, is_default |-> FALSE, verify_ssl |-> FALSE]

NoCall == [op |-> None, name |-> None, env |-> NoEnv]

\* The keyring entries of one environment and the AWX_* environment variables;
\* NoText stands for an entry or a variable that is not set.
Keyring(username, password, token) ==
    [username |-> username, password |-> password, token |-> token]
Environ(base_url, token, username, password) ==
    [base_url |-> base_url, token |-> token, username |-> username, password |-> password]

\* What a tool call finds: whether the ConfigManager has an active environment,
\* that environment's allowed_job_templates, the keyring, the environment
\* variables, the name the controller has for the template asked for, and the
\* arguments the caller gave.
ToolInput(active, allowed, keyring, environ, template, arguments) ==
    [active |-> active, allowed |-> allowed, keyring |-> keyring, environ |-> environ,
     template |-> template, arguments |-> arguments]
NoToolInput ==
    ToolInput(FALSE, {}, Keyring(NoText, NoText, NoText),
              Environ(NoText, NoText, NoText, NoText), None, NoText)

\* The environment and client get_active_client returns: where they came from,
\* the environment's allowed_job_templates and the arguments of the client.
Client(source, allowed, username, secret, is_token) ==
    [source |-> source, allowed |-> allowed, username |-> username, secret |-> secret,
     is_token |-> is_token]
NoClient == Client(None, {}, NoText, NoText, FALSE)

\* No ConfigManager method, list_job_templates or tool has been called: the
\* ConfigManager is as __init__ leaves it when no config file exists.
FrontIdle ==
    /\ cfg_envs = <<>>
    /\ cfg_active = None
    /\ cfg_op = NoCall
    /\ cfg_result = NoOutcome
    /\ lt_templates = <<>>
    /\ lt_calls = <<>>
    /\ tl_pc = "idle"
    /\ tl_in = NoToolInput
    /\ tl_client = NoClient
    /\ tl_log = <<>>
    /\ tl_sent = <<>>
    /\ tl_pending = NoOutcome
    /\ tl_result = NoOutcome

Init ==
    /\ build \in Builds
    /\ pc = "idle"
    /\ caller = None
    /\ method = None
    /\ endpoint = None
    /\ params = NoParams
    /\ attempt_number = 0
    /\ calls = <<>>
    /\ sleeps = <<>>
    /\ outcome = NoOutcome
    /\ jobEvents = <<>>
    /\ tail_lines = NoTail
    /\ so_pc = "idle"
    /\ so_result = NoOutcome
    /\ so_full = NoText
    /\ ev_input = NoEvInput
    /\ ev_result = NoOutcome
    /\ AnalysisIdle
    /\ UpdateIdle
    /\ FrontIdle

Next == CallRequest \/ RequestAttempt

Spec == Init /\ [][Next]_vars

----
\* RestAWXClient.get_job_stdout and get_job_events (server copy).

MaxEvents == 2          \* longest ordinary event list
MaxOutputLen == 3       \* longest console output, in characters
MaxTail == 2            \* largest tail_lines

FallbackPageSize == 1000

Chars == {"a", "b", NL}
RECURSIVE Texts(_)
\* Every text of at most n characters.
Texts(n) ==
    IF n = 0 THEN {<<>>}
    ELSE Texts(n - 1) \cup {Append(t, c) : t \in {u \in Texts(n - 1) : Len(u) = n - 1}, c \in Chars}

NoneStdout == <<None>>  \* an event whose stdout field is null or absent
EventStdouts == {NoneStdout, <<>>, <<"a">>, <<"b", NL, "a">>}

RECURSIVE SeqsUpTo(_, _)
\* Every sequence over S of length at most n.
SeqsUpTo(S, n) ==
    IF n = 0 THEN {<<>>}
    ELSE SeqsUpTo(S, n - 1) \cup
         {Append(q, x) : q \in {r \in SeqsUpTo(S, n - 1) : Len(r) = n - 1}, x \in S}

\* Jobs with one event more than the page get_job_stdout asks for.
LongJobLast == [i \in 1..(FallbackPageSize + 1) |->
                  IF i = FallbackPageSize + 1 THEN <<"b">> ELSE NoneStdout]
LongJobBoth == [i \in 1..(FallbackPageSize + 1) |->
                  IF i = 1 THEN <<"a">>
                  ELSE IF i = FallbackPageSize + 1 THEN <<"b">> ELSE NoneStdout]

JobEventLists == SeqsUpTo(EventStdouts, MaxEvents) \cup {LongJobLast, LongJobBoth}

TailInputs == {NoTail} \cup 0..MaxTail

StdoutEndpoint == "/api/v2/jobs/1/stdout/"
EventsEndpoint == "/api/v2/jobs/1/job_events/"

\* The decoded body of a stdout response, as far as get_job_stdout looks into it.
StdoutJson(type, has_content, content, has_detail, detail) ==
    [type |-> type, has_content |-> has_content, content |-> content,
     has_detail |-> has_detail, detail |-> detail]

StdoutResponse(status, ctype, text, json) ==
    [kind |-> "response", status |-> status, ctype |-> ctype,
     body |-> [text |-> text, json |-> json]]
StdoutNetError(k) ==
    [kind |-> k, status |-> 0, ctype |-> <<>>,
     body |-> [text |-> <<>>, json |-> StdoutJson("invalid", FALSE, <<>>, FALSE, None)]]

\* The Content-Type values of a JSON answer as controllers and proxies send them,
\* and of a plain text answer.
JsonContentTypes ==
    {Text("application/json"), Text("application/json; charset=utf-8"),
     Text("Application/JSON")}
TextPlain == Text("text/plain")

\* json.dumps of a string: the line break is written as the two characters \n.
JsonDumps(t) ==
    <<"\"">> \o Join([i \in 1..Len(t) |-> IF t[i] = NL THEN <<"\\", "n">> ELSE <<t[i]>>], <<>>)
           \o <<"\"">>

\* What the single GET of the stdout endpoint can produce, for console output t:
\* plain text, a JSON object with or without "content", a body announced as JSON
\* that does not decode, and JSON that decodes to a string, a list or null (for
\* a string the decoded value is kept under content).
StdoutSuccess(t) ==
    { StdoutResponse(200, TextPlain, t, StdoutJson("invalid", FALSE, <<>>, FALSE, None)),
      StdoutResponse(200, Text("application/json"), <<"{", "}">>,
                     StdoutJson("object", FALSE, <<>>, FALSE, None)),
      StdoutResponse(200, Text("application/json"), t,
                     StdoutJson("invalid", FALSE, <<>>, FALSE, None)),
      StdoutResponse(200, Text("application/json"), JsonDumps(t),
                     StdoutJson("str", FALSE, t, FALSE, None)),
      StdoutResponse(200, Text("application/json"), Text("[\"a\"]"),
                     StdoutJson("list", FALSE, <<>>, FALSE, None)),
      StdoutResponse(200, Text("application/json"), Text("null"),
                     StdoutJson("NoneType", FALSE, <<>>, FALSE, None)) }
    \cup {StdoutResponse(200, ctype, <<"{">> \o t \o <<"}">>,
                          StdoutJson("object", TRUE, t, FALSE, None))
            : ctype \in JsonContentTypes}

StdoutFailures ==
    {StdoutNetError("ConnectError"), StdoutNetError("TimeoutException"),
     StdoutNetError("OtherError")}
    \cup {StdoutResponse(s, Text("application/json"), <<"{", "d", "}">>,
                         StdoutJson("object", FALSE, <<>>, TRUE, "Not found."))
            : s \in {400, 401, 403, 404, 500}}
    \cup {StdoutResponse(s, Text("text/html"), <<"h">>,
                         StdoutJson("invalid", FALSE, <<>>, FALSE, None))
            : s \in {401, 403, 404, 500}}

StdoutOutcomes ==
    StdoutFailures \cup UNION {StdoutSuccess(t) : t \in Texts(MaxOutputLen)}

\* Outcomes of get_job_stdout; a returned value is a text.
SoReturned(text) == [kind |-> "return", value |-> text, error |-> Err(None, None, None, 0, None)]
SoRaised(e) == [kind |-> "raise", value |-> NoText, error |-> e]

\* Python truthiness of an event's stdout.
Truthy(stdout) == stdout # NoneStdout /\ stdout # <<>>

\* Mutation: the fallback keeps the events in reverse order.
OutputLines_Reversed(results) ==
    LET kept == SelectSeq(results, LAMBDA item : Truthy(item.stdout)) IN
    [i \in 1..Len(kept) |-> kept[Len(kept) + 1 - i].stdout]

\* output_lines: the truthy stdout fields of the events, in the order received.
OutputLines(results) ==
    LET kept == SelectSeq(results, LAMBDA item : Truthy(item.stdout)) IN
    [i \in 1..Len(kept) |-> kept[i].stdout]

\* The fallback's use of the events get_job_events returned.
FallbackContent(data) ==
    IF data.type # "object"
    THEN SoRaised(Err("AWXClientError", "job events fallback failed", None, 404,
                      "AttributeError"))
    ELSE LET content == Join(OutputLines(IF data.has_results THEN data.results ELSE <<>>),
                             <<NL>>) IN
         IF content = <<>>
         THEN SoRaised(Err("AWXClientError", "job events fallback failed", None, 404,
                           "no output available"))
         ELSE SoReturned(content)

\* The detail of a failed stdout response.
StdoutErrorDetail(body) ==
    IF body.json.type = "object" /\ body.json.has_detail
    THEN body.json.detail
    ELSE "raw body"

\* str(data) for decoded JSON that is not an object: a string is its own text,
\* the list ["a"] is written ['a'], null is written None.
StdoutStr(json) ==
    CASE json.type = "str" -> json.content
      [] json.type = "list" -> Text("['a']")
      [] OTHER -> Text("None")

\* The content of a successful stdout response (lines 654-671).
StdoutContent(resp) ==
    IF In(Text("application/json"), Lower(resp.ctype))
    THEN IF resp.body.json.type = "object"
         THEN (IF resp.body.json.has_content THEN resp.body.json.content ELSE <<>>)
         ELSE IF resp.body.json.type = "invalid"
         THEN resp.body.text
         ELSE StdoutStr(resp.body.json)
    ELSE resp.body.text

\* if tail_lines and content: content = "\n".join(content.split("\n")[-tail_lines:])
TailOf(content, n) ==
    IF n # NoTail /\ n # 0 /\ content # <<>>
    THEN Join(LastN(Split(content), n), <<NL>>)
    ELSE content

\* Mutation: a failed stdout request of any status falls back to the events.
NeedsFallback_AnyError(net) == net.kind = "response" /\ net.status >= 400

\* The stdout answer that sends get_job_stdout to the event fallback.
NeedsFallback(net) == net.kind = "response" /\ net.status = 404

\* get_job_stdout up to its return, raise or call of get_job_events.
GetJobStdout ==
    /\ so_pc = "idle"
    /\ pc = "idle"
    /\ \E n \in TailInputs, net \in StdoutOutcomes :
        /\ tail_lines' = n
        /\ calls' = Append(calls, [endpoint |-> StdoutEndpoint, outcome |-> net,
                                    result |-> NoOutcome])
        /\ IF NeedsFallback(net)
           THEN \* events = await self.get_job_events(job_id, False, 1, 1000)
                /\ so_pc' = "events"
                /\ pc' = "attempt"
                /\ caller' = "get_job_events"
                /\ method' = "GET"
                /\ endpoint' = EventsEndpoint
                /\ params' = [page |-> 1, page_size |-> FallbackPageSize,
                              order_by |-> "counter"]
                /\ attempt_number' = 1
                /\ UNCHANGED <<so_result, so_full>>
           ELSE /\ so_pc' = "done"
                /\ UNCHANGED <<pc, caller, method, endpoint, params, attempt_number>>
                /\ IF net.kind # "response"
                   THEN /\ so_result' = SoRaised(Err("AWXConnectionError",
                                "Network error fetching job output", None, 0, net.kind))
                        /\ UNCHANGED so_full
                   ELSE IF net.status = 403
                   THEN /\ so_result' = SoRaised(Err("AWXAuthenticationError",
                                "Permission denied to access job stdout", None, 403, None))
                        /\ UNCHANGED so_full
                   ELSE IF net.status >= 400
                   THEN /\ so_result' = SoRaised(Err("AWXClientError",
                                "Failed to get job stdout", None, net.status,
                                StdoutErrorDetail(net.body)))
                        /\ UNCHANGED so_full
                   ELSE /\ so_full' = StdoutContent(net)
                        /\ so_result' = SoReturned(TailOf(StdoutContent(net), n))
    /\ UNCHANGED <<build, sleeps, outcome, jobEvents, extraVars, analysisVars, updateVars, frontVars>>

\* Mutation: a failure of the event fetch is passed on as it is.
FallbackError_Passthrough(fallback_error) == fallback_error

\* Lines 637-640: whatever the event fetch raised is wrapped in AWXClientError
\* with the failure's message in the text.
FallbackError(fallback_error) ==
    Err("AWXClientError", "job events fallback failed", None, 404, fallback_error.msg)

\* The rest of the 404 branch, once get_job_events' _request is over.
FallbackFinish ==
    /\ so_pc = "events"
    /\ pc = "done"
    /\ so_pc' = "done"
    /\ IF outcome.kind = "raise"
       THEN /\ so_result' = SoRaised(FallbackError(outcome.error))
            /\ UNCHANGED so_full
       ELSE /\ so_result' = FallbackContent(outcome.value)
            /\ so_full' = IF FallbackContent(outcome.value).kind = "return"
                          THEN FallbackContent(outcome.value).value
                          ELSE so_full
    /\ UNCHANGED <<build, requestVars, jobEvents, tail_lines, extraVars, analysisVars, updateVars, frontVars>>

InitStdout ==
    /\ build = "server"
    /\ pc = "idle"
    /\ caller = None
    /\ method = None
    /\ endpoint = None
    /\ params = NoParams
    /\ attempt_number = 0
    /\ calls = <<>>
    /\ sleeps = <<>>
    /\ outcome = NoOutcome
    /\ jobEvents \in JobEventLists
    /\ tail_lines = NoTail
    /\ so_pc = "idle"
    /\ so_result = NoOutcome
    /\ so_full = NoText
    /\ ev_input = NoEvInput
    /\ ev_result = NoOutcome
    /\ AnalysisIdle
    /\ UpdateIdle
    /\ FrontIdle

NextStdout == GetJobStdout \/ RequestAttempt \/ FallbackFinish

SpecStdout == InitStdout /\ [][NextStdout]_vars

----
\* extra_vars decoding: RestAWXClient._parse_extra_vars and _parse_job.

MaxJsonLen == 3         \* longest extra_vars string, in tokens

\* A string is a sequence of tokens: single characters, the literal null and one
\* object member ("a": 1).
Space == " "
Member == "\"a\": 1"
Tokens == {Space, "{", "}", "[", "]", "1", "null", Member, "x"}

\* A Python value: its type and its canonical text.
PyValue(type, text) == [type |-> type, text |-> text]
EmptyDict == PyValue("dict", <<"{", "}">>)
PyNone == PyValue("NoneType", <<"null">>)
Undecodable == PyValue("invalid", <<>>)     \* json.JSONDecodeError

RECURSIVE LStrip(_)
LStrip(t) == IF t # <<>> /\ Head(t) = Space THEN LStrip(Tail(t)) ELSE t
RECURSIVE RStrip(_)
RStrip(t) ==
    IF t # <<>> /\ t[Len(t)] = Space THEN RStrip(SubSeq(t, 1, Len(t) - 1)) ELSE t
\* str.strip()
Strip(t) == LStrip(RStrip(t))

Inner(t) == Strip(SubSeq(t, 2, Len(t) - 1))

RECURSIVE JsonLoads(_)
\* json.loads over the token grammar
\*   value ::= null | 1+ | { [member 1*] } | [ [value] ]   (spaces allowed around values)
JsonLoads(text) ==
    LET t == Strip(text) IN
    IF t = <<>> THEN Undecodable
    ELSE IF t = <<"null">> THEN PyNone
    ELSE IF \A i \in 1..Len(t) : t[i] = "1" THEN PyValue("int", t)
    ELSE IF Len(t) >= 2 /\ Head(t) = "{" /\ t[Len(t)] = "}"
    THEN (IF Inner(t) = <<>> THEN EmptyDict
          ELSE IF Head(Inner(t)) = Member
                  /\ \A i \in 2..Len(Inner(t)) : Inner(t)[i] = "1"
          THEN PyValue("dict", <<"{">> \o Inner(t) \o <<"}">>)
          ELSE Undecodable)
    ELSE IF Len(t) >= 2 /\ Head(t) = "[" /\ t[Len(t)] = "]"
    THEN (IF Inner(t) = <<>> THEN PyValue("list", <<"[", "]">>)
          ELSE IF JsonLoads(Inner(t)).type # "invalid"
          THEN PyValue("list", <<"[">> \o JsonLoads(Inner(t)).text \o <<"]">>)
          ELSE Undecodable)
    ELSE Undecodable

\* The value of the payload's extra_vars field as Python sees it.
PayloadValue(x) ==
    IF x.type = "str" THEN PyValue("str", x.text)
    ELSE IF x.type = "dict" THEN PyValue("dict", x.text)
    ELSE PyNone

\* _parse_extra_vars(extra_vars)
ParseExtraVars(x) ==
    IF x.type = "dict" THEN PayloadValue(x)
    ELSE IF x.type = "str" /\ Strip(x.text) # <<>>
    THEN (IF JsonLoads(x.text).type = "invalid" THEN EmptyDict ELSE JsonLoads(x.text))
    ELSE EmptyDict

\* extra_vars as _parse_job computes it from data.get("extra_vars", {}).
ParseJobExtraVars(x) ==
    IF ~x.present THEN EmptyDict
    ELSE IF x.type = "str"
    THEN (IF x.text = <<>> THEN EmptyDict
          ELSE IF JsonLoads(x.text).type = "invalid" THEN EmptyDict
          ELSE JsonLoads(x.text))
    ELSE PayloadValue(x)

\* extra_vars as _parse_job hands it to Job: the server copy decodes a string
\* first, the bundled copy passes data.get("extra_vars", {}) on as it is.
JobExtraVars(b, x) ==
    IF b = "server" THEN ParseJobExtraVars(x)
    ELSE IF ~x.present THEN EmptyDict
    ELSE PayloadValue(x)

\* Construction of a JobTemplate / Job: the field is declared dict[str, Any],
\* so any other value fails validation.
BuildRecord(extra_vars) ==
    IF extra_vars.type = "dict"
    THEN Returned(extra_vars)
    ELSE Raised(Err("ValidationError", "extra_vars: Input should be a valid dictionary",
                    None, 0, extra_vars.type))

\* The extra_vars values of the controller's payloads.
ExtraVarsValues ==
    {[present |-> TRUE, type |-> "str", text |-> t] : t \in SeqsUpTo(Tokens, MaxJsonLen)}
    \cup {[present |-> TRUE, type |-> "dict", text |-> <<"{", "}">>],
          [present |-> TRUE, type |-> "dict", text |-> <<"{", Member, "}">>],
          [present |-> TRUE, type |-> "NoneType", text |-> <<"null">>],
          [present |-> FALSE, type |-> "dict", text |-> <<"{", "}">>]}

\* get_job_template: extra_vars=self._parse_extra_vars(data.get("extra_vars", {}))
GetJobTemplate ==
    /\ ev_input.record = "job_template"
    /\ ev_result.kind = "none"
    /\ ev_result' = BuildRecord(ParseExtraVars(ev_input))
    /\ UNCHANGED <<build, requestVars, stdoutVars, ev_input, analysisVars, updateVars, frontVars>>

\* _parse_job(data)
ParseJob ==
    /\ ev_input.record = "job"
    /\ ev_result.kind = "none"
    /\ ev_result' = BuildRecord(JobExtraVars(build, ev_input))
    /\ UNCHANGED <<build, requestVars, stdoutVars, ev_input, analysisVars, updateVars, frontVars>>

InitExtraVars ==
    /\ build = "server"
    /\ pc = "idle"
    /\ caller = None
    /\ method = None
    /\ endpoint = None
    /\ params = NoParams
    /\ attempt_number = 0
    /\ calls = <<>>
    /\ sleeps = <<>>
    /\ outcome = NoOutcome
    /\ jobEvents = <<>>
    /\ tail_lines = NoTail
    /\ so_pc = "idle"
    /\ so_result = NoOutcome
    /\ so_full = NoText
    /\ \E rec \in {"job_template", "job"}, x \in ExtraVarsValues :
        ev_input = [record |-> rec, present |-> x.present, type |-> x.type,
                    text |-> x.text]
    /\ ev_result = NoOutcome
    /\ AnalysisIdle
    /\ UpdateIdle
    /\ FrontIdle

NextExtraVars == GetJobTemplate \/ ParseJob

SpecExtraVars == InitExtraVars /\ [][NextExtraVars]_vars

----
\* utils/parsing.py: analyze_job_failure, the Failure Classifier.
\* An error text is a sequence of characters, as every text of the model;
\* Text("...") writes one out, NL is the line break.

\* An Optional[str] field of an event or an analysis that is None.
NoneText == NoneStdout

\* A Python value found in event_data: text, None, or a list such as ['a', 'b']
\* (its text is what str() gives for it).
PyStr(t) == PyValue("str", t)
PyNoneValue == PyValue("NoneType", <<>>)

\* event_data: whether it has a "res" entry, the type of that entry and, for
\* "msg" and "stderr", whether `key in res` holds and the value under the key.
EventData(has_res, type, has_msg, msg, has_stderr, stderr) ==
    [has_res |-> has_res, type |-> type, has_msg |-> has_msg, msg |-> msg,
     has_stderr |-> has_stderr, stderr |-> stderr]
NoRes == EventData(FALSE, "NoneType", FALSE, PyNoneValue, FALSE, PyNoneValue)

JobEvent(failed, task, play, role, host, stdout, stderr, event_data) ==
    [failed |-> failed, task |-> task, play |-> play, role |-> role, host |-> host,
     stdout |-> stdout, stderr |-> stderr, event_data |-> event_data]

FailureCategories == {"inventory_issue", "auth_failure", "missing_variable",
                      "syntax_error", "module_failure", "connection_timeout",
                      "permission_denied", "unknown"}

FailureAnalysis(job_id, category, task, play, role, host, error_message, stderr, fixes, count) ==
    [job_id |-> job_id, category |-> category, task_name |-> task, play_name |-> play,
     role_name |-> role, host |-> host, error_message |-> error_message,
     stderr |-> stderr, suggested_fixes |-> fixes, failed_events_count |-> count]

\* any(pattern in text for pattern in patterns)
AnyIn(patterns, t) == \E p \in patterns : In(p, t)

\* f"{value}"
Format(v) == IF v.type = "NoneType" THEN Text("None") ELSE v.text

\* The phrases _classify_failure looks for, by the check that uses them.
Patterns(group) ==
    CASE group = "inventory_issue" ->
            {Text("unreachable"), Text("could not resolve hostname"),
             Text("connection refused")}
      [] group = "auth_failure" ->
            {Text("permission denied"), Text("authentication failed"),
             Text("invalid credentials"), Text("unauthorized")}
      [] group = "missing_variable" ->
            {Text("undefined variable"), Text("variable is not defined")}
      [] group = "syntax_error" ->
            {Text("syntax error"), Text("yaml syntax"),
             Text("unexpected token"), Text("invalid syntax")}
      [] group = "connection_timeout" -> {Text("timeout"), Text("timed out")}
      [] group = "package_task" -> {Text("yum"), Text("apt"), Text("dnf"), Text("package")}
      [] group = "package_error" -> {Text("no package"), Text("not found")}

\* combined = f"{error_msg} {stderr}".lower()
Combined(error_msg, stderr) == Lower(Format(error_msg) \o Text(" ") \o Format(stderr))

\* Mutation: the credential phrases are looked for before the inventory ones.
ClassifyFailure_AuthFirst(error_msg, stderr, event) ==
    LET combined == Combined(error_msg, stderr) IN
    IF AnyIn(Patterns("auth_failure"), combined) THEN "auth_failure"
    ELSE IF AnyIn(Patterns("inventory_issue"), combined) THEN "inventory_issue"
    ELSE IF AnyIn(Patterns("missing_variable"), combined) THEN "missing_variable"
    ELSE IF AnyIn(Patterns("syntax_error"), combined) THEN "syntax_error"
    ELSE IF AnyIn(Patterns("connection_timeout"), combined) THEN "connection_timeout"
    ELSE IF In(Text("permission"), combined) /\ In(Text("denied"), combined)
    THEN "permission_denied"
    ELSE IF /\ Truthy(event.task)
            /\ AnyIn(Patterns("package_task"), Lower(event.task))
            /\ AnyIn(Patterns("package_error"), combined)
    THEN "module_failure"
    ELSE "unknown"

\* _classify_failure(error_msg, stderr, event)
ClassifyFailure(error_msg, stderr, event) ==
    LET combined == Combined(error_msg, stderr) IN
    IF AnyIn(Patterns("inventory_issue"), combined) THEN "inventory_issue"
    ELSE IF AnyIn(Patterns("auth_failure"), combined) THEN "auth_failure"
    ELSE IF AnyIn(Patterns("missing_variable"), combined) THEN "missing_variable"
    ELSE IF AnyIn(Patterns("syntax_error"), combined) THEN "syntax_error"
    ELSE IF AnyIn(Patterns("connection_timeout"), combined) THEN "connection_timeout"
    ELSE IF In(Text("permission"), combined) /\ In(Text("denied"), combined)
    THEN "permission_denied"
    ELSE IF /\ Truthy(event.task)
            /\ AnyIn(Patterns("package_task"), Lower(event.task))
            /\ AnyIn(Patterns("package_error"), combined)
    THEN "module_failure"
    ELSE "unknown"

\* One suggested fix: its wording and the text put in its placeholder (<<>> for
\* a wording without placeholder).
Suggestion(text, arg) == [text |-> text, arg |-> arg]
Fixed(text) == Suggestion(text, <<>>)

\* Mutation: the credential advice is replaced by general advice.
AuthSuggestions_General ==
    <<Fixed("Review the full job output for more context"),
      Fixed("Check that the user has access to the target host")>>

AuthSuggestions ==
    <<Fixed("Verify SSH credentials or keys are correct"),
      Fixed("Check that the user has access to the target host"),
      Fixed("Ensure SSH key is in the authorized_keys file"),
      Fixed("Verify sudo/become password if required")>>

\* The characters \w matches (ASCII texts).
WordChars == Text("abcdefghijklmnopqrstuvwxyzABCDEFGHIJKLMNOPQRSTUVWXYZ0123456789_")
IsWordChar(c) == \E i \in 1..Len(WordChars) : WordChars[i] = c
IsQuote(c) == c = "'" \/ c = "\""

\* The end of the run [\w_]+ that starts right after position i of t: the last
\* position of the longest run of word characters from i + 1 on (i when there
\* is none).
RunEnd(t, i) ==
    LET ends == {k \in i..Len(t) : \A m \in (i + 1)..k : IsWordChar(t[m])}
    IN  CHOOSE k \in ends : \A m \in ends : m <= k

\* Does r"['\"]([\w_]+)['\"].*undefined" match t from position i on?  The run
\* of word characters cannot be cut short, since a quote must follow it; "."
\* does not match a line break and the search is case-sensitive.
MatchesAt(t, i) ==
    LET k == RunEnd(t, i) IN
    /\ IsQuote(t[i])
    /\ k > i
    /\ k + 1 <= Len(t)
    /\ IsQuote(t[k + 1])
    /\ \E j \in (k + 2)..(Len(t) - 8) :
        /\ SubSeq(t, j, j + 8) = Text("undefined")
        /\ \A m \in (k + 2)..(j - 1) : t[m] # NL

\* re.search(r"['\"]([\w_]+)['\"].*undefined", text): group 1 of the leftmost
\* match, <<>> when there is none.
VarMatch(t) ==
    LET starts == {i \in 1..Len(t) : MatchesAt(t, i)}
    IN  IF starts = {} THEN <<>>
        ELSE LET i == CHOOSE i \in starts : \A k \in starts : i <= k
             IN  SubSeq(t, i + 1, RunEnd(t, i))

\* _generate_suggestions(category, error_msg, stderr, event); error_msg and
\* stderr are texts here.
GenerateSuggestions(category, error_msg, stderr, event) ==
    CASE category = "inventory_issue" ->
            <<Fixed("Verify the host exists in the inventory"),
              Fixed("Check network connectivity to the target host"),
              Fixed("Ensure the hostname resolves correctly (check DNS or /etc/hosts)"),
              Fixed("Verify firewall rules allow SSH connections")>>
      [] category = "auth_failure" -> AuthSuggestions
      [] category = "missing_variable" ->
            LET var_name == VarMatch(error_msg \o stderr) IN
            (IF var_name # <<>>
             THEN <<Suggestion("Define the variable '{var_name}' in extra_vars or playbook",
                               var_name)>>
             ELSE <<>>)
            \o <<Fixed("Check the playbook for required variables"),
                 Fixed("Add missing variables to extra_vars in the job template"),
                 Fixed("Verify variable names are spelled correctly")>>
      [] category = "syntax_error" ->
            <<Fixed("Check YAML syntax in the playbook"),
              Fixed("Verify proper indentation (use spaces, not tabs)"),
              Fixed("Run ansible-playbook --syntax-check locally"),
              Fixed("Check for missing quotes or special characters")>>
      [] category = "connection_timeout" ->
            <<Fixed("Increase timeout values in ansible.cfg"),
              Fixed("Check network latency to target hosts"),
              Fixed("Verify no firewall is blocking connections"),
              Fixed("Check if target host is overloaded")>>
      [] category = "permission_denied" ->
            <<Fixed("Check file/directory permissions on target host"),
              Fixed("Verify the user has necessary privileges"),
              Fixed("Use 'become: yes' if elevated privileges are needed"),
              Fixed("Check SELinux/AppArmor policies if applicable")>>
      [] category = "module_failure" ->
            <<Suggestion("Check module '{event.task}' documentation for required parameters",
                         event.task),
              Fixed("Verify the module is available on the target system"),
              Fixed("Check module prerequisites are installed"),
              Fixed("Review module error message for specific issues")>>
      [] OTHER ->
            <<Fixed("Review the full job output for more context"),
              Fixed("Check Ansible module documentation"),
              Fixed("Verify all task parameters are correct"),
              Fixed("Try running the task manually on the target host")>>

\* An exception that is none of the client's own (TypeError, ValidationError, ...).
PyError(cls) == Err(cls, None, None, 0, None)

\* Lines 39-44: does reading event_data["res"] raise?  `"msg" in res` raises for
\* a res that is no container; res["msg"] raises for a str or a list.
ResRaises(event_data) ==
    /\ event_data.has_res
    /\ \/ event_data.type = "NoneType"
       \/ /\ event_data.type \in {"str", "list"}
          /\ event_data.has_msg \/ event_data.has_stderr

\* error_message after lines 34 and 39-42
ErrorMessageOf(event) ==
    IF event.event_data.has_res /\ event.event_data.type = "dict"
       /\ event.event_data.has_msg
    THEN event.event_data.msg
    ELSE PyStr(IF Truthy(event.stdout) THEN event.stdout ELSE <<>>)

\* stderr after lines 35 and 43-44
StderrOf(event) ==
    IF event.event_data.has_res /\ event.event_data.type = "dict"
       /\ event.event_data.has_stderr
    THEN event.event_data.stderr
    ELSE PyStr(IF Truthy(event.stderr) THEN event.stderr ELSE <<>>)

\* Mutation: no suggestion is given when nothing failed.
NoFailedEvents_Silent(job_id) ==
    FailureAnalysis(job_id, "unknown", NoneText, None, None, None, PyNoneValue,
                    PyNoneValue, <<>>, 0)

\* Lines 24-28: the analysis of a job without failed events.
NoFailedEvents(job_id) ==
    FailureAnalysis(job_id, "unknown", NoneText, None, None, None, PyNoneValue,
                    PyNoneValue,
                    <<Fixed("No failed events found. Check job status for details.")>>, 0)

\* Mutation: the last failed event is analysed.
Representative_Last(failed_events) == failed_events[Len(failed_events)]

\* event = failed_events[0]
Representative(failed_events) == failed_events[1]

\* analyze_job_failure(job_id, events, stdout)
AnalyzeJobFailure(job_id, events, stdout) ==
    LET failed_events == SelectSeq(events, LAMBDA e : e.failed) IN
    IF failed_events = <<>> THEN Returned(NoFailedEvents(job_id))
    ELSE
    LET event == Representative(failed_events)
        error_message == ErrorMessageOf(event)
        stderr == StderrOf(event)
        category == ClassifyFailure(error_message, stderr, event)
    IN  IF ResRaises(event.event_data) THEN Raised(PyError("TypeError"))
        ELSE IF category = "missing_variable"
                /\ (error_message.type # "str" \/ stderr.type # "str")
        THEN Raised(PyError("TypeError"))     \* error_msg + stderr
        ELSE IF error_message.type \notin {"str", "NoneType"}
                \/ stderr.type \notin {"str", "NoneType"}
        THEN Raised(PyError("ValidationError"))
        ELSE Returned(FailureAnalysis(
                 job_id, category, event.task, event.play, event.role, event.host,
                 error_message, stderr,
                 GenerateSuggestions(category, error_message.text, stderr.text, event),
                 Len(failed_events)))

\* Inputs of analyze_job_failure.

MaxUnits == 2       \* phrases per error message
MaxAnEvents == 3    \* events per job in the event-list inputs

\* The message of test_analyze_missing_variable.
MissingVariableMessage ==
    Text("The task includes an option with an undefined variable. The error was: 'app_version' is undefined")

\* Phrases the error messages are put together from, a blank between two of
\* them: phrases of the pattern lists as they stand, capitalised, followed by
\* punctuation and inside a longer word.
Units ==
    {Text("Unreachable"), Text("Connection refused"),
     Text("Permission denied (publickey,password)"), Text("Unauthorized"),
     Text("undefined variable."), Text("'app_version' is undefined"),
     Text("'db_host'"), Text("Syntax Error"), Text("timed out"), Text("timeouts"),
     Text("permission"), Text("denied"), Text("No package"), Text("failed"), <<NL>>}

\* One failed event carrying the texts in event_data["res"] or in its own
\* stdout and stderr fields.
TextEvent(in_res, task, msg, stderr) ==
    IF in_res
    THEN JobEvent(TRUE, task, "Deploy", None, "web01", NoneText, NoneText,
                  EventData(TRUE, "dict", TRUE, PyStr(msg), stderr # <<>>, PyStr(stderr)))
    ELSE JobEvent(TRUE, task, "Deploy", None, "web01", msg, stderr, NoRes)

\* The failed event of test_analyze_missing_variable.
MissingVariableEvent ==
    TextEvent(TRUE, Text("Deploy application"), MissingVariableMessage, <<>>)

\* Single failed events: every message of at most MaxUnits phrases, with a
\* short stderr and a task; and the event of the test.
TextInputs ==
    {<<MissingVariableEvent>>} \cup
    {<<TextEvent(in_res, task, Join(us, Text(" ")), stderr)>> :
        in_res \in BOOLEAN,
        task \in {NoneText, Text("Install nginx package"), Text("Gather facts")},
        us \in SeqsUpTo(Units, MaxUnits),
        stderr \in {<<>>, Text("denied"), Text("Unreachable"), Text("undefined")}}

\* Events the event-list inputs are put together from.
OkEvent ==
    JobEvent(FALSE, Text("Gather facts"), "Deploy", None, "web01",
             Text("Unreachable"), NoneText, NoRes)
AuthEvent ==
    JobEvent(TRUE, Text("Gather facts"), "Deploy", "common", "web01", NoneText, NoneText,
             EventData(TRUE, "dict", TRUE, PyStr(Text("failed")), TRUE,
                       PyStr(Text("Permission denied (publickey,password)"))))
TimeoutEvent ==
    JobEvent(TRUE, Text("Install nginx package"), "Site", None, "db01",
             Text("timed out"), NoneText, NoRes)
\* ... and failed events whose res is None, whose msg is a list, whose msg is
\* None, and whose res is a string containing "msg".
ListEvents ==
    {OkEvent, AuthEvent, TimeoutEvent,
     JobEvent(TRUE, NoneText, "Site", None, "db01", Text("failed"), NoneText,
              EventData(TRUE, "NoneType", FALSE, PyNoneValue, FALSE, PyNoneValue)),
     JobEvent(TRUE, NoneText, "Site", None, "db01", NoneText, NoneText,
              EventData(TRUE, "dict", TRUE, PyValue("list", Text("['a', 'b']")), FALSE,
                        PyNoneValue)),
     JobEvent(TRUE, NoneText, "Site", None, None, NoneText, NoneText,
              EventData(TRUE, "dict", TRUE, PyNoneValue, TRUE,
                        PyStr(Text("undefined variable")))),
     JobEvent(TRUE, NoneText, "Site", None, "db01", Text("failed"), NoneText,
              EventData(TRUE, "str", TRUE, PyNoneValue, FALSE, PyNoneValue))}

\* A caller invokes analyze_job_failure(job_id, events, stdout).
Analyze ==
    /\ an_result.kind = "none"
    /\ \E stdout \in Texts(1) :
        an_result' = AnalyzeJobFailure(an_job_id, an_events, stdout)
    /\ UNCHANGED <<build, requestVars, stdoutVars, extraVars, an_job_id, an_events,
                   updateVars, frontVars>>

InitAnalyze ==
    /\ build = "server"
    /\ pc = "idle"
    /\ caller = None
    /\ method = None
    /\ endpoint = None
    /\ params = NoParams
    /\ attempt_number = 0
    /\ calls = <<>>
    /\ sleeps = <<>>
    /\ outcome = NoOutcome
    /\ jobEvents = <<>>
    /\ tail_lines = NoTail
    /\ so_pc = "idle"
    /\ so_result = NoOutcome
    /\ so_full = NoText
    /\ ev_input = NoEvInput
    /\ ev_result = NoOutcome
    /\ an_job_id \in {7, 42}
    /\ an_events \in TextInputs \cup SeqsUpTo(ListEvents, MaxAnEvents)
    /\ an_result = NoOutcome
    /\ UpdateIdle
    /\ FrontIdle

SpecAnalyze == InitAnalyze /\ [][Analyze]_vars

----
\* RestAWXClient.update_project.  Each _request call is taken as a whole: it
\* hands back the decoded body or raises after its attempts.

PollBudget == 60

\* Mutation: canceled is not taken as a final status.
TerminalStatuses_NoCanceled == {"successful", "failed", "error"}

TerminalStatuses == {"successful", "failed", "error", "canceled"}

\* Every status the controller can report for a project update; None stands
\* for a body without a "status" key.
UpdateStatuses ==
    {"pending", "waiting", "running", "successful", "failed", "error", "canceled", None}

\* A decoded JSON body as far as update_project looks into it: its Python type,
\* whether `"id" in data` holds, and for an object its id and status.
UpdateData(has_id, id, status) ==
    [type |-> "dict", has_id |-> has_id, id |-> id, status |-> status]

\* A decoded body that is not an object: null, 5, ["id"], [], "id", "x".
NotObject(type, has_id) == [type |-> type, has_id |-> has_id, id |-> 0, status |-> None]
NotObjects ==
    {NotObject("NoneType", FALSE), NotObject("int", FALSE), NotObject("list", TRUE),
     NotObject("list", FALSE), NotObject("str", TRUE), NotObject("str", FALSE)}

\* What a _request of the server copy raises once its attempts are used up: the
\* error of its last attempt, for every answer that makes an attempt fail.
RequestErrors(ep) ==
    {r \in {RequestOnce("server", ep, net) : net \in DirectOutcomes} : r.kind = "raise"}

\* What _request("POST", ".../update/") can hand back.
LaunchResults ==
    {Returned(UpdateData(TRUE, 11, "pending")), Returned(UpdateData(FALSE, 0, None))}
        \cup {Returned(v) : v \in NotObjects}
        \cup RequestErrors("/api/v2/projects/5/update/")

\* What _request("GET", ".../project_updates/{update_id}/") can hand back.
PollResults(update_id) ==
    {Returned(UpdateData(TRUE, update_id, st)) : st \in UpdateStatuses}
        \cup {Returned(NotObject("list", FALSE))}
        \cup RequestErrors("/api/v2/project_updates/11/")

\* A caller invokes update_project(project_id, wait) and the launch POST is
\* answered (lines 418-421; line 432 when there is nothing to wait for).
\* `"id" in data` raises TypeError for null and for a number; data["id"] raises
\* TypeError for a list or a string that holds "id".
UpdateProject ==
    /\ up_pc = "idle"
    /\ \E wait \in BOOLEAN, r \in LaunchResults :
        /\ up_wait' = wait
        /\ IF r.kind = "raise"
           THEN /\ up_result' = r
                /\ up_pc' = "done"
                /\ UNCHANGED up_data
           ELSE /\ up_data' = r.value
                /\ IF wait /\ r.value.type \in {"NoneType", "int"}
                   THEN up_pc' = "done" /\ up_result' = Raised(PyError("TypeError"))
                   ELSE IF wait /\ r.value.has_id /\ r.value.type # "dict"
                   THEN up_pc' = "done" /\ up_result' = Raised(PyError("TypeError"))
                   ELSE IF wait /\ r.value.has_id /\ PollBudget > 0
                   THEN up_pc' = "poll" /\ UNCHANGED up_result
                   ELSE up_pc' = "done" /\ up_result' = Returned(r.value)
    /\ UNCHANGED <<build, requestVars, stdoutVars, extraVars, analysisVars, frontVars,
                   up_polls, up_status, up_sleeps>>

\* Lines 424-429: one status poll is answered.
UpdatePoll ==
    /\ up_pc = "poll"
    /\ \E r \in PollResults(up_data.id) :
        IF r.kind = "raise"
        THEN /\ up_result' = r
             /\ up_pc' = "done"
             /\ UNCHANGED <<up_polls, up_status>>
        ELSE IF r.value.type # "dict"
        THEN /\ up_result' = Raised(PyError("AttributeError"))
             /\ up_pc' = "done"
             /\ up_polls' = up_polls + 1
             /\ UNCHANGED up_status
        ELSE /\ up_polls' = up_polls + 1
             /\ up_status' = r.value.status
             /\ IF r.value.status \in TerminalStatuses
                THEN up_pc' = "done" /\ up_result' = Returned(up_data)
                ELSE up_pc' = "sleep" /\ UNCHANGED up_result
    /\ UNCHANGED <<build, requestVars, stdoutVars, extraVars, analysisVars, frontVars,
                   up_wait, up_data, up_sleeps>>

\* Line 430: asyncio.sleep(1), then the next round of the loop or line 432.
UpdateSleep ==
    /\ up_pc = "sleep"
    /\ up_sleeps' = up_sleeps + 1
    /\ IF up_polls < PollBudget
       THEN up_pc' = "poll" /\ UNCHANGED up_result
       ELSE up_pc' = "done" /\ up_result' = Returned(up_data)
    /\ UNCHANGED <<build, requestVars, stdoutVars, extraVars, analysisVars, frontVars,
                   up_wait, up_data, up_polls, up_status>>

InitUpdate ==
    /\ build = "server"
    /\ pc = "idle"
    /\ caller = None
    /\ method = None
    /\ endpoint = None
    /\ params = NoParams
    /\ attempt_number = 0
    /\ calls = <<>>
    /\ sleeps = <<>>
    /\ outcome = NoOutcome
    /\ jobEvents = <<>>
    /\ tail_lines = NoTail
    /\ so_pc = "idle"
    /\ so_result = NoOutcome
    /\ so_full = NoText
    /\ ev_input = NoEvInput
    /\ ev_result = NoOutcome
    /\ AnalysisIdle
    /\ UpdateIdle
    /\ FrontIdle

NextUpdate == UpdateProject \/ UpdatePoll \/ UpdateSleep

SpecUpdate == InitUpdate /\ [][NextUpdate]_vars

\* The coroutine is run to completion: every step that can be taken is taken.
SpecUpdateFair == SpecUpdate /\ WF_vars(NextUpdate)

----
\* Properties of the Request Client (checked under Spec).

ConnectionLevel(net) == net.kind \in {"ConnectError", "TimeoutException"}
ErrorResponse(net) == net.kind = "response" /\ net.status >= 400

\* C1: an attempt that receives a response with status >= 400 is the last one:
\* the mapped error reaches the caller after exactly one HTTP call, and only
\* connect failures and timeouts are followed by another attempt.
C1_ErrorStatusNotRetried ==
    /\ \A i \in 1..Len(calls) :
        ErrorResponse(calls[i].outcome) =>
            /\ i = 1
            /\ Len(calls) = 1
            /\ pc = "done"
            /\ outcome = calls[i].result
    /\ \A i \in 1..(Len(calls) - 1) : ConnectionLevel(calls[i].outcome)

\* C2: when the first k-1 attempts fail at connection level and attempt k
\* succeeds, the call is over after exactly k HTTP attempts and hands back
\* attempt k's decoded body; while every attempt fails at connection level the
\* call does not give up before the third attempt.
C2_SuccessAfterConnectionFailures ==
    /\ \A k \in 1..Len(calls) :
        (/\ \A i \in 1..(k - 1) : ConnectionLevel(calls[i].outcome)
         /\ calls[k].result.kind = "return")
        => /\ Len(calls) = k
           /\ k <= MaxAttempts
           /\ pc = "done"
           /\ outcome.kind = "return"
           /\ outcome.value = calls[k].outcome.body.json
    /\ (pc = "done" /\ \A i \in 1..Len(calls) : ConnectionLevel(calls[i].outcome))
        => Len(calls) = MaxAttempts

\* C2 witness: fail, fail, succeed ended with the third attempt's result.
C2_Witness ==
    /\ pc = "done"
    /\ Len(calls) = 3
    /\ calls[1].outcome = ConnectError
    /\ calls[2].outcome = TimeoutException
    /\ calls[3].outcome = Response(200, BodyObject)
    /\ outcome = Returned(BodyObject.json)
    /\ sleeps = <<WaitExponential(1), WaitExponential(2)>>

\* C3: one call performs at most 3 HTTP attempts, and when its last attempt
\* fails the caller receives exactly the error that attempt raised.
C3_LastFailureSurfaced ==
    /\ Len(calls) <= 3
    /\ (pc = "done" /\ calls[Len(calls)].result.kind = "raise")
        => outcome = calls[Len(calls)].result

\* The detail the claim describes: the JSON "detail" field, or the raw body.
C4_Detail(body) ==
    IF body = BodyDetail THEN "Not found." ELSE body.text

\* The classes domain/exceptions.py defines for a resource that was not found,
\* each a subclass of AWXClientError that an `except` clause can tell from it.
NotFoundErrors == {"JobNotFoundError", "TemplateNotFoundError", "ProjectNotFoundError"}

\* C4: every response status maps to one error kind: 401 and 403 raise
\* AWXAuthenticationError; 404 raises an error of a not-found class, a kind of
\* its own, carrying the endpoint and the detail; every other status >= 400
\* raises AWXClientError carrying the status code and the detail; a status < 400
\* raises no status error.
C4_NotFoundIsOwnKind ==
    \A i \in 1..Len(calls) :
        LET s == calls[i].outcome.status
            r == calls[i].result
            e == calls[i].result.error
        IN  calls[i].outcome.kind = "response" =>
                /\ (s \in {401, 403} => (r.kind = "raise" /\ e.cls = "AWXAuthenticationError"))
                /\ (s = 404 =>
                        /\ r.kind = "raise"
                        /\ e.cls \in NotFoundErrors
                        /\ e.endpoint = calls[i].endpoint
                        /\ e.detail = C4_Detail(calls[i].outcome.body))
                /\ ((s >= 400 /\ s \notin {401, 403, 404}) =>
                        /\ r.kind = "raise"
                        /\ e.cls = "AWXClientError"
                        /\ e.status = s
                        /\ e.detail = C4_Detail(calls[i].outcome.body))
                /\ (s < 400 => (r.kind = "return" \/ e.msg = "Request failed"))

----
\* Properties of get_job_stdout (checked under SpecStdout).

\* The stdout endpoint answered the call's GET with 404.
Primary404 ==
    /\ Len(calls) >= 1
    /\ calls[1].endpoint = StdoutEndpoint
    /\ calls[1].outcome.kind = "response"
    /\ calls[1].outcome.status = 404

\* get_job_events handed the controller's page of events to the fallback.
EventsFetched ==
    /\ Len(calls) >= 2
    /\ calls[Len(calls)].endpoint = EventsEndpoint
    /\ calls[Len(calls)].outcome = Response(200, EventsBody(jobEvents, params))
    /\ outcome.kind = "return"

\* The non-empty stdout fields of a list of events, in order, newline-joined.
StdoutOf(events) == Join(SelectSeq(events, Truthy), <<NL>>)

FirstPage(events) == SubSeq(events, 1, Min(FallbackPageSize, Len(events)))

\* C5 as stated: after a 404 from the stdout endpoint, a job with a non-empty
\* stdout field among its events yields the newline-joined non-empty stdout
\* fields of ALL its events, in counter order.
C5_AllEventsJoined ==
    (/\ so_pc = "done"
     /\ Primary404
     /\ EventsFetched
     /\ \E i \in 1..Len(jobEvents) : Truthy(jobEvents[i]))
    => /\ so_result.kind = "return"
       /\ so_result.value = StdoutOf(jobEvents)

\* C5 amended: after a 404 from the stdout endpoint and a successful event
\* fetch, a job with a non-empty stdout field among its first 1000 events (the
\* one page requested) yields the newline-joined non-empty stdout fields of
\* those first 1000 events, in counter order, and nothing else.
C5_FirstPageJoined ==
    (/\ so_pc = "done"
     /\ Primary404
     /\ EventsFetched
     /\ \E i \in 1..Len(FirstPage(jobEvents)) : Truthy(jobEvents[i]))
    => /\ so_result.kind = "return"
       /\ so_result.value = StdoutOf(FirstPage(jobEvents))

\* C5 witness: two events with output, returned in counter order.
C5_Witness ==
    /\ so_pc = "done"
    /\ Primary404
    /\ EventsFetched
    /\ jobEvents = << <<"b", NL, "a">>, <<"a">> >>
    /\ so_result = SoReturned(<<"b", NL, "a", NL, "a">>)

\* C6: after a 404 from the stdout endpoint, a job whose events were fetched and
\* all have empty or absent stdout (or that has no events) makes get_job_stdout
\* raise an error of a not-found class; the 404 path never returns the empty text.
C6_EmptyFallbackRaises ==
    /\ (/\ so_pc = "done"
        /\ Primary404
        /\ EventsFetched
        /\ \A i \in 1..Len(jobEvents) : ~Truthy(jobEvents[i]))
       => /\ so_result.kind = "raise"
          /\ so_result.error.cls \in NotFoundErrors
    /\ (so_pc = "done" /\ Primary404)
       => ~(so_result.kind = "return" /\ so_result.value = <<>>)

\* The half of C6 the code keeps: the 404 path ends with an error or with a
\* non-empty text, never with the empty text.
EmptyNeverReturned ==
    (so_pc = "done" /\ Primary404) => ~(so_result.kind = "return" /\ so_result.value = <<>>)

\* Number of newline-delimited lines of a text; the empty text has none.
LineCount(text) == IF text = <<>> THEN 0 ELSE Len(Split(text))

\* The last min(n, total) lines of a text.
LastLines(text, n) ==
    LET lines == Split(text)
        k == Min(n, Len(lines)) IN
    Join(SubSeq(lines, Len(lines) - k + 1, Len(lines)), <<NL>>)

\* C7: whenever get_job_stdout is called with tail_lines = N >= 0 and returns
\* text, the text has at most N lines and is the last min(N, total) lines of
\* the complete output, on the stdout path and on the event fallback alike.
C7_TailLines ==
    (so_pc = "done" /\ so_result.kind = "return" /\ tail_lines # NoTail)
    => /\ LineCount(so_result.value) <= tail_lines
       /\ so_result.value = LastLines(so_full, tail_lines)

\* The calls sent to an endpoint so far.
CallsTo(ep) == {i \in 1..Len(calls) : calls[i].endpoint = ep}

\* C8: the job-events endpoint is requested only after the stdout endpoint
\* answered 404; on 403 the call fails at once with the permission error, and
\* on any other status >= 400 or a connection failure it fails, each without
\* any further request.
C8_FallbackOnlyOn404 ==
    /\ CallsTo(EventsEndpoint) # {} => Primary404
    /\ (Len(calls) >= 1 /\ ~Primary404) =>
        /\ Len(calls) = 1
        /\ so_pc = "done"
        /\ pc = "idle"
        /\ calls[1].outcome.kind # "response" =>
            so_result.kind = "raise" /\ so_result.error.cls = "AWXConnectionError"
        /\ (calls[1].outcome.kind = "response" /\ calls[1].outcome.status = 403) =>
            /\ so_result.kind = "raise"
            /\ so_result.error.cls = "AWXAuthenticationError"
            /\ so_result.error.msg = "Permission denied to access job stdout"
        /\ (calls[1].outcome.kind = "response" /\ calls[1].outcome.status >= 400) =>
            so_result.kind = "raise"

\* C8 witness: a 403 from the stdout endpoint ended the call after one request.
C8_Witness ==
    /\ so_pc = "done"
    /\ Len(calls) = 1
    /\ calls[1].outcome.kind = "response"
    /\ calls[1].outcome.status = 403
    /\ so_result.kind = "raise"
    /\ so_result.error.cls = "AWXAuthenticationError"

\* C9 as stated: within one call the stdout endpoint receives exactly one GET
\* and the events endpoint at most one.
C9_OneGetEach ==
    /\ so_pc # "idle" => Cardinality(CallsTo(StdoutEndpoint)) = 1
    /\ Cardinality(CallsTo(EventsEndpoint)) <= 1

\* C9 amended: within one call the stdout endpoint receives exactly one GET;
\* the 404 fallback calls get_job_events once, through the retrying Request
\* Client, so the events endpoint receives at most 3 GETs, each but the first
\* following a failed attempt, and none once the fallback is over.
C9_OneStdoutGetOneEventsCall ==
    /\ so_pc # "idle" => Cardinality(CallsTo(StdoutEndpoint)) = 1
    /\ Cardinality(CallsTo(EventsEndpoint)) <= MaxAttempts
    /\ \A i \in CallsTo(EventsEndpoint) :
        /\ i >= 2
        /\ i > 2 => calls[i - 1].result.kind = "raise"
    /\ so_pc = "done" => pc # "attempt"

\* C9 witness: a fallback whose event fetch took three GETs.
C9_Witness ==
    /\ so_pc = "done"
    /\ Cardinality(CallsTo(StdoutEndpoint)) = 1
    /\ Cardinality(CallsTo(EventsEndpoint)) = 3
    /\ so_result.kind = "return"

----
\* Properties of extra_vars decoding (checked under SpecExtraVars).

\* C10: whatever extra_vars value the controller returns, reading a job
\* template or a job does not raise and the record's extra_vars is a map.
C10_ExtraVarsAlwaysMap ==
    ev_result.kind # "none" =>
        /\ ev_result.kind = "return"
        /\ ev_result.value.type = "dict"

----
\* Backoff and body decoding of the Request Client (checked under Spec).

\* C19: the wait before attempt i+1 is 2s doubled i-1 times and capped at 10s
\* (2s before the second attempt, 4s before the third); the waits of one
\* request are non-decreasing and never exceed 10s.
C19_ExponentialBackoff ==
    /\ \A i \in 1..Len(sleeps) : sleeps[i] = Min(2 * 2^(i - 1), 10)
    /\ \A i \in 1..(Len(sleeps) - 1) : sleeps[i] <= sleeps[i + 1]
    /\ \A i \in 1..Len(sleeps) : sleeps[i] <= 10

SuccessNotJson(net) ==
    net.kind = "response" /\ net.status < 400 /\ net.body.json.type = "invalid"

\* C20: an attempt answered with a status below 400 and a body that is not
\* JSON does not raise; it ends the request (no further attempt is sent) and
\* the caller gets a value back.
C20_NonJsonSuccessReturned ==
    \A i \in 1..Len(calls) :
        SuccessNotJson(calls[i].outcome) =>
            /\ calls[i].result.kind = "return"
            /\ i = Len(calls)
            /\ pc = "done"
            /\ outcome.kind = "return"

----
\* Properties of the Failure Classifier (checked under SpecAnalyze).

Analyzed == an_result.kind # "none"
FailedIndexes == {i \in 1..Len(an_events) : an_events[i].failed}
FirstFailed == CHOOSE i \in FailedIndexes : \A k \in FailedIndexes : i <= k

\* The error text of an event as written: message, blank, stderr.
ErrorText(e) == Format(ErrorMessageOf(e)) \o Text(" ") \o Format(StderrOf(e))

\* C11: whatever the events hold, analyze returns an analysis of the given job
\* whose category is one of the eight FailureCategory values; it never raises.
C11_AnalyzeNeverRaises ==
    Analyzed =>
        /\ an_result.kind = "return"
        /\ an_result.value.job_id = an_job_id
        /\ an_result.value.category \in FailureCategories

Precedence == <<"inventory_issue", "auth_failure", "missing_variable", "syntax_error",
                "connection_timeout", "permission_denied", "module_failure">>

\* Does the lower-cased text t (of an event with the given task) match the
\* phrase group of category c?
GroupMatches(c, t, task) ==
    CASE c = "inventory_issue" -> AnyIn(Patterns("inventory_issue"), t)
      [] c = "auth_failure" -> AnyIn(Patterns("auth_failure"), t)
      [] c = "missing_variable" -> AnyIn(Patterns("missing_variable"), t)
      [] c = "syntax_error" -> AnyIn(Patterns("syntax_error"), t)
      [] c = "connection_timeout" -> AnyIn(Patterns("connection_timeout"), t)
      [] c = "permission_denied" -> In(Text("permission"), t) /\ In(Text("denied"), t)
      [] c = "module_failure" ->
            /\ task # NoneText
            /\ AnyIn(Patterns("package_task"), Lower(task))
            /\ AnyIn(Patterns("package_error"), t)

MatchingRanks(e) ==
    {i \in 1..Len(Precedence) : GroupMatches(Precedence[i], Lower(ErrorText(e)), e.task)}

\* C12: the category returned is the earliest one, in the fixed order, whose
\* phrase group matches the error text with case ignored, and it is unknown
\* exactly when no group matches.
C12_FirstMatchWins ==
    (Analyzed /\ an_result.kind = "return" /\ FailedIndexes # {}) =>
        LET ranks == MatchingRanks(an_events[FirstFailed]) IN
        /\ ranks = {} <=> an_result.value.category = "unknown"
        /\ ranks # {} =>
            \E i \in ranks :
                /\ \A k \in ranks : i <= k
                /\ an_result.value.category = Precedence[i]

\* C12 witness: a capitalised text matching the inventory, the credential and
\* the permission+denied groups was classified as inventory_issue.
C12_Witness ==
    /\ Analyzed
    /\ an_events = <<TextEvent(TRUE, NoneText,
                               Text("Permission denied (publickey,password) Unreachable"),
                               <<>>)>>
    /\ MatchingRanks(an_events[1]) = {1, 2, 6}
    /\ an_result.value.category = "inventory_issue"

\* C13: a returned analysis takes task, play, role, host, error message and
\* stderr from the first failed event, equals (count aside) the analysis of the
\* list cut right after that event, and counts every failed event of the list.
C13_FirstFailedEventOnly ==
    (Analyzed /\ FailedIndexes # {}) =>
        LET e == an_events[FirstFailed]
            cut == AnalyzeJobFailure(an_job_id, SubSeq(an_events, 1, FirstFailed), <<>>)
        IN  /\ an_result.kind = cut.kind
            /\ an_result.kind = "return" =>
                /\ an_result.value.task_name = e.task
                /\ an_result.value.play_name = e.play
                /\ an_result.value.role_name = e.role
                /\ an_result.value.host = e.host
                /\ an_result.value.error_message = ErrorMessageOf(e)
                /\ an_result.value.stderr = StderrOf(e)
                /\ an_result.value.failed_events_count = Cardinality(FailedIndexes)
                /\ an_result.value =
                       [cut.value EXCEPT !.failed_events_count = Cardinality(FailedIndexes)]

\* C13 witness: a passing event, then two different failed events; the analysis
\* is the first failed one's and the count is 2.
C13_Witness ==
    /\ Analyzed
    /\ an_events = <<OkEvent, AuthEvent, TimeoutEvent>>
    /\ an_result.kind = "return"
    /\ an_result.value.host = "web01"
    /\ an_result.value.category = "auth_failure"
    /\ an_result.value.failed_events_count = 2

\* C14: without any failed event (empty list included) analyze returns category
\* unknown, exactly the one generic suggestion, and a failed-events count of 0.
C14_NoFailedEvents ==
    (Analyzed /\ FailedIndexes = {}) =>
        /\ an_result.kind = "return"
        /\ an_result.value.category = "unknown"
        /\ an_result.value.suggested_fixes =
               <<Fixed("No failed events found. Check job status for details.")>>
        /\ an_result.value.failed_events_count = 0

\* C14 witness: a non-empty list of passing events was analysed.
C14_Witness ==
    /\ Analyzed
    /\ an_events = <<OkEvent, OkEvent>>
    /\ an_result.value.category = "unknown"

SshPhrase == Text("Permission denied (publickey,password)")

\* Suggestions whose wording contains "SSH" or "credential".
MentionsSshOrCredentials(s) ==
    s.text \in {"Verify SSH credentials or keys are correct",
                "Ensure SSH key is in the authorized_keys file",
                "Verify firewall rules allow SSH connections"}

\* The first failed event's error text can be read and contains the SSH phrase.
HasSshPhrase ==
    /\ Analyzed
    /\ FailedIndexes # {}
    /\ ~ResRaises(an_events[FirstFailed].event_data)
    /\ In(SshPhrase, ErrorText(an_events[FirstFailed]))

AuthFailureReported ==
    /\ an_result.kind = "return"
    /\ an_result.value.category = "auth_failure"
    /\ an_result.value.host = an_events[FirstFailed].host
    /\ \E i \in 1..Len(an_result.value.suggested_fixes) :
        MentionsSshOrCredentials(an_result.value.suggested_fixes[i])

\* C15 as stated: an error text containing "Permission denied
\* (publickey,password)", whatever else it contains, gives auth_failure with the
\* event's host and a suggestion mentioning SSH or credentials.
C15_SshPhraseIsAuthFailure == HasSshPhrase => AuthFailureReported

\* C15 amended: the same, for error texts that contain none of the
\* inventory_issue phrases (which take precedence).
C15_SshPhraseWithoutInventoryPhrase ==
    (/\ HasSshPhrase
     /\ ~AnyIn(Patterns("inventory_issue"), Lower(ErrorText(an_events[FirstFailed]))))
    => AuthFailureReported

\* C15 witness: the SSH phrase next to a timeout phrase gave auth_failure.
C15_Witness ==
    /\ HasSshPhrase
    /\ In(Text("timed out"), ErrorText(an_events[FirstFailed]))
    /\ an_result.value.category = "auth_failure"
    /\ an_result.value.host = "web01"

\* C16: an error text containing "'app_version' is undefined" gives
\* missing_variable, and the first suggestion names app_version.
C16_UndefinedNamesVariable ==
    (/\ Analyzed
     /\ FailedIndexes # {}
     /\ ~ResRaises(an_events[FirstFailed].event_data)
     /\ In(Text("'app_version' is undefined"), ErrorText(an_events[FirstFailed])))
    => /\ an_result.kind = "return"
       /\ an_result.value.category = "missing_variable"
       /\ an_result.value.suggested_fixes[1].arg = Text("app_version")

----
\* Properties of update_project (checked under SpecUpdate and SpecUpdateFair).

\* Statuses of a project update that is still under way.
RunningStatuses == {"pending", "waiting", "running", None}

\* C17: with wait enabled, the value returned after polling carries the status
\* seen by the most recent poll, and a call that used up its 60 polls returns.
C17_ReturnsLastSeenStatus ==
    /\ (up_pc = "done" /\ up_wait /\ up_polls > 0 /\ up_result.kind = "return")
        => up_result.value.status = up_status
    /\ (up_pc = "done" /\ up_polls = 60 /\ up_status \in RunningStatuses)
        => up_result.kind = "return"

\* C18: update_project comes to an end; it never polls more than 60 times, a
\* poll showing successful, failed, error or canceled ends the call at once,
\* and no poll is made after such a status was seen.
C18_PollingTerminates ==
    /\ [](up_polls <= 60)
    /\ []((up_polls > 0 /\ up_status \in {"successful", "failed", "error", "canceled"})
            => up_pc = "done")
    /\ [][up_polls' > up_polls =>
            up_status \notin {"successful", "failed", "error", "canceled"}]_vars
    /\ <>(up_pc = "done")

\* C18 witness: polling went on for a while and was ended by a canceled update.
C18_Witness ==
    /\ up_pc = "done"
    /\ up_polls = 3
    /\ up_sleeps = 2
    /\ up_status = "canceled"
    /\ up_result.kind = "return"

----
\* Error kinds of get_job_stdout (checked under SpecStdout).

\* C28: a 401 answer from the stdout endpoint raises AWXAuthenticationError,
\* as a 403 answer does.
C28_UnauthorizedIsAuthenticationError ==
    (/\ so_pc = "done"
     /\ Len(calls) >= 1
     /\ calls[1].outcome.kind = "response"
     /\ calls[1].outcome.status \in {401, 403})
    => /\ so_result.kind = "raise"
       /\ so_result.error.cls = "AWXAuthenticationError"

\* C29: after a 404 from the stdout endpoint the call either returns a
\* non-empty text or raises AWXClientError; when the event fetch failed, the
\* AWXClientError carries the message of that failure.
C29_FallbackRaisesOnlyClientError ==
    (so_pc = "done" /\ Primary404) =>
        /\ \/ so_result.kind = "return" /\ so_result.value # <<>>
           \/ so_result.kind = "raise" /\ so_result.error.cls = "AWXClientError"
        /\ outcome.kind = "raise" =>
            /\ so_result.kind = "raise"
            /\ so_result.error.cls = "AWXClientError"
            /\ so_result.error.detail = outcome.error.msg

\* C29 witness: the event fetch was refused with 401 (AWXAuthenticationError)
\* and the caller got AWXClientError.
C29_Witness ==
    /\ so_pc = "done"
    /\ Primary404
    /\ outcome.kind = "raise"
    /\ outcome.error.cls = "AWXAuthenticationError"
    /\ so_result.kind = "raise"
    /\ so_result.error.cls = "AWXClientError"

----
\* The delete accessors of RestAWXClient (server copy only): each is the single line
\*   await self.client.request("DELETE", f"/api/v2/<kind>/{id}/")
\* on the httpx client itself, not on _request.

DeleteEndpoints ==
    {"/api/v2/credentials/1/", "/api/v2/job_templates/1/", "/api/v2/projects/1/",
     "/api/v2/inventories/1/", "/api/v2/groups/1/", "/api/v2/hosts/1/", "/api/v2/jobs/1/"}

\* What the accessor makes of the one HTTP call: the response is dropped unread
\* whatever its status; an httpx exception leaves the accessor as it is.
DeleteOnce(net) ==
    IF net.kind = "response"
    THEN Returned(None)
    ELSE Raised(Err(net.kind, "httpx", None, 0, None))

\* delete_credential / delete_job_template / delete_project / delete_inventory /
\* delete_inventory_group / delete_inventory_host / delete_job.
DeleteResource ==
    /\ pc = "idle"
    /\ so_pc = "idle"
    /\ build = "server"
    /\ \E ep \in DeleteEndpoints, net \in DirectOutcomes :
        /\ method' = "DELETE"
        /\ endpoint' = ep
        /\ calls' = Append(calls, [endpoint |-> ep, outcome |-> net,
                                    result |-> DeleteOnce(net)])
        /\ outcome' = DeleteOnce(net)
    /\ caller' = "delete"
    /\ pc' = "done"
    /\ UNCHANGED <<build, params, attempt_number, sleeps, stdoutVars, extraVars,
                   analysisVars, updateVars, frontVars>>

SpecDelete == Init /\ [][DeleteResource]_vars

\* The typed errors of the domain (domain/exceptions.py) a client call may raise.
TypedErrors == {"AWXAuthenticationError", "AWXClientError", "AWXConnectionError"}

\* C25: a delete accessor whose DELETE is answered with a status >= 400, or whose
\* connection fails, raises a typed error and never returns normally.
C25_DeleteFailureRaisesTyped == (pc = "done" /\ method = "DELETE" /\ (calls[1].outcome.kind # "response" \/ calls[1].outcome.status >= 400)) => (outcome.kind = "raise" /\ outcome.error.cls \in TypedErrors)

----
\* launch_job (both copies): builds the payload and hands the POST to _request,
\* under the same tenacity decorator as every other call; _parse_job, which turns
\* the answer into a Job afterwards, sends nothing.
LaunchJob ==
    /\ pc = "idle"
    /\ so_pc = "idle"
    /\ method' = "POST"
    /\ endpoint' = "/api/v2/job_templates/1/launch/"
    /\ params' = NoParams
    /\ caller' = "launch_job"
    /\ pc' = "attempt"
    /\ attempt_number' = 1
    /\ UNCHANGED <<build, calls, sleeps, outcome, stdoutVars, extraVars, analysisVars, updateVars, frontVars>>

SpecLaunch == Init /\ [][LaunchJob \/ RequestAttempt]_vars

\* The controller accepted the POST of this call: it answered 2xx, whether or not
\* the answer reached the client.
Accepted(call) == call.outcome.status >= 200 /\ call.outcome.status < 300

AcceptedLaunches == {i \in 1..Len(calls) : Accepted(calls[i])}

\* C26: the launch POST of one launch_job call is accepted by the controller at most once.
C26_LaunchAcceptedAtMostOnce == caller = "launch_job" => Cardinality(AcceptedLaunches) <= 1

----
\* ConfigManager (storage/config.py): the environments are a dict keyed by name,
\* kept here as the sequence of its values in insertion order.

EnvNames == {"dev", "prod", "qa"}

\* The EnvironmentConfig values a caller passes: the name and two of the fields.
EnvConfigs == [name : EnvNames, is_default : BOOLEAN, verify_ssl : BOOLEAN]

\* self._environments.keys()
Keys(envs) == {envs[i].name : i \in 1..Len(envs)}

\* self._environments[name]
Lookup(envs, name) == envs[CHOOSE i \in 1..Len(envs) : envs[i].name = name]

\* del self._environments[name]
Del(envs, name) == SelectSeq(envs, LAMBDA e : e.name # name)

\* self._environments[env.name] = env: an existing key keeps its place, a new
\* key goes to the end.
Put(envs, env) ==
    IF env.name \in Keys(envs)
    THEN [i \in 1..Len(envs) |-> IF envs[i].name = env.name THEN env ELSE envs[i]]
    ELSE Append(envs, env)

\* The state a ConfigManager method leaves and what it hands to its caller.
Cfg(envs, active, result) == [envs |-> envs, active |-> active, result |-> result]

ConfigError(cls) == Raised(Err(cls, "Environment", None, 0, None))

\* set_active(name)
SetActive(envs, active, name) ==
    IF name \notin Keys(envs)
    THEN Cfg(envs, active, ConfigError("EnvironmentNotFoundError"))
    ELSE Cfg(envs, name, Returned(NoEnv))

\* add_environment(env)
AddEnvironment(envs, active, env) ==
    IF env.name \in Keys(envs)
    THEN Cfg(envs, active, ConfigError("EnvironmentAlreadyExistsError"))
    ELSE LET stored == Put(envs, env) IN
         IF Len(stored) = 1 \/ env.is_default
         THEN SetActive(stored, active, env.name)
         ELSE Cfg(stored, active, Returned(NoEnv))

\* Mutation: the old entry is removed before the new name is looked up.
UpdateEnvironment_DelFirst(envs, active, name, env) ==
    IF name \notin Keys(envs)
    THEN Cfg(envs, active, ConfigError("EnvironmentNotFoundError"))
    ELSE IF name # env.name /\ env.name \in Keys(envs)
    THEN Cfg(Del(envs, name), active, ConfigError("EnvironmentAlreadyExistsError"))
    ELSE IF name # env.name
    THEN Cfg(Put(Del(envs, name), env), IF active = name THEN env.name ELSE active,
             Returned(NoEnv))
    ELSE Cfg(Put(envs, env), active, Returned(NoEnv))

\* update_environment(name, env)
UpdateEnvironment(envs, active, name, env) ==
    IF name \notin Keys(envs)
    THEN Cfg(envs, active, ConfigError("EnvironmentNotFoundError"))
    ELSE IF name # env.name /\ env.name \in Keys(envs)
    THEN Cfg(envs, active, ConfigError("EnvironmentAlreadyExistsError"))
    ELSE IF name # env.name
    THEN Cfg(Put(Del(envs, name), env), IF active = name THEN env.name ELSE active,
             Returned(NoEnv))
    ELSE Cfg(Put(envs, env), active, Returned(NoEnv))

\* Mutation: deleting the active environment leaves no environment active.
DeleteEnvironment_NoSuccessor(envs, active, name) ==
    IF name \notin Keys(envs)
    THEN Cfg(envs, active, ConfigError("EnvironmentNotFoundError"))
    ELSE LET rest == Del(envs, name) IN
         IF active = name
         THEN Cfg(rest, None, Returned(NoEnv))
         ELSE Cfg(rest, active, Returned(NoEnv))

\* delete_environment(name): next(iter(keys())) is the first key in dict order.
DeleteEnvironment(envs, active, name) ==
    IF name \notin Keys(envs)
    THEN Cfg(envs, active, ConfigError("EnvironmentNotFoundError"))
    ELSE LET rest == Del(envs, name) IN
         IF active = name
         THEN Cfg(rest, IF Len(rest) > 0 THEN rest[1].name ELSE None, Returned(NoEnv))
         ELSE Cfg(rest, active, Returned(NoEnv))

\* get_environment(name)
GetEnvironment(envs, active, name) ==
    IF name \notin Keys(envs)
    THEN Cfg(envs, active, ConfigError("EnvironmentNotFoundError"))
    ELSE Cfg(envs, active, Returned(Lookup(envs, name)))

\* get_active()
GetActive(envs, active) ==
    IF active = None
    THEN Cfg(envs, active, ConfigError("NoActiveEnvironmentError"))
    ELSE Cfg(envs, active, Returned(Lookup(envs, active)))

\* One call of a ConfigManager method: the state and the result it leaves.
ConfigCall(call, after) ==
    /\ cfg_op' = call
    /\ cfg_envs' = after.envs
    /\ cfg_active' = after.active
    /\ cfg_result' = after.result
    /\ UNCHANGED <<build, requestVars, stdoutVars, extraVars, analysisVars, updateVars,
                   listVars, toolVars>>

Call(op, name, env) == [op |-> op, name |-> name, env |-> env]

\* A caller invokes one method of the ConfigManager.
NextConfig ==
    \/ \E env \in EnvConfigs :
        ConfigCall(Call("add_environment", None, env),
                   AddEnvironment(cfg_envs, cfg_active, env))
    \/ \E name \in EnvNames, env \in EnvConfigs :
        ConfigCall(Call("update_environment", name, env),
                   UpdateEnvironment(cfg_envs, cfg_active, name, env))
    \/ \E name \in EnvNames :
        ConfigCall(Call("delete_environment", name, NoEnv),
                   DeleteEnvironment(cfg_envs, cfg_active, name))
    \/ \E name \in EnvNames :
        ConfigCall(Call("set_active", name, NoEnv), SetActive(cfg_envs, cfg_active, name))
    \/ \E name \in EnvNames :
        ConfigCall(Call("get_environment", name, NoEnv),
                   GetEnvironment(cfg_envs, cfg_active, name))
    \/ ConfigCall(Call("get_active", None, NoEnv), GetActive(cfg_envs, cfg_active))

SpecConfig == Init /\ [][NextConfig]_vars

----
\* Properties of the ConfigManager (checked under SpecConfig).

\* The call just made named an environment the manager did not hold.
UnknownName ==
    /\ cfg_op'.op \in {"get_environment", "update_environment", "delete_environment", "set_active"}
    /\ cfg_op'.name \notin Keys(cfg_envs)

\* The call just made was add_environment with a name the manager already held.
DuplicateAdd == cfg_op'.op = "add_environment" /\ cfg_op'.env.name \in Keys(cfg_envs)

\* C24: a rejected ConfigManager call changes nothing: add_environment with an existing
\* name raises EnvironmentAlreadyExistsError, get/update/delete/set_active on an unknown
\* name raises EnvironmentNotFoundError, any call that raises one of the two leaves the
\* stored environments and the active environment as they were.
C24_RejectedCallChangesNothing ==
    [][/\ DuplicateAdd =>
            (cfg_result'.kind = "raise" /\ cfg_result'.error.cls = "EnvironmentAlreadyExistsError")
       /\ UnknownName =>
            (cfg_result'.kind = "raise" /\ cfg_result'.error.cls = "EnvironmentNotFoundError")
       /\ cfg_result'.kind = "raise" =>
            (cfg_envs' = cfg_envs /\ cfg_active' = cfg_active)]_vars

\* A rename onto the name of another stored environment was rejected, with other
\* environments stored and one of them active.
C24_Witness ==
    /\ cfg_op.op = "update_environment"
    /\ cfg_op.name # cfg_op.env.name
    /\ cfg_op.name \in Keys(cfg_envs)
    /\ cfg_op.env.name \in Keys(cfg_envs)
    /\ cfg_result.kind = "raise"
    /\ cfg_result.error.cls = "EnvironmentAlreadyExistsError"
    /\ cfg_active = cfg_op.name

\* C30: on a ConfigManager that started empty, the active name is unset or a stored
\* name and is set whenever an environment is stored; deleting the active environment
\* leaves a remaining one active; get_active raises NoActiveEnvironmentError exactly
\* when nothing is stored.
C30_ActiveIsStored ==
    /\ cfg_active \in Keys(cfg_envs) \cup {None}
    /\ (Len(cfg_envs) > 0 => cfg_active # None)
    /\ (cfg_op.op = "get_active" =>
            ((cfg_result.kind = "raise" /\ cfg_result.error.cls = "NoActiveEnvironmentError")
                <=> Len(cfg_envs) = 0))
    /\ (cfg_op.op = "get_active" /\ cfg_result.kind = "return" =>
            cfg_result.value.name = cfg_active)

\* The active environment was deleted while two others were stored, and the first of
\* them in insertion order is active now.
C30_Witness ==
    /\ cfg_op.op = "delete_environment"
    /\ cfg_result.kind = "return"
    /\ Len(cfg_envs) = 2
    /\ cfg_op.name \notin Keys(cfg_envs)
    /\ cfg_active = cfg_envs[1].name

----
\* list_job_templates (both copies), without a name filter.

MaxTemplates == 7
MaxListCalls == 2

\* The controller's job templates, in the order it lists them: up to MaxTemplates
\* templates with a project, and the full listing with one template, on the
\* first page or on the second, whose project is null or not in the item, or
\* whose extra_vars is the text of a JSON list.
TemplateLists ==
    LET good == TemplateItem(0, ProjectValue(TRUE, "int", 7), ExtraVars(TRUE, "str", <<"{", "}">>))
    IN  {[i \in 1..n |-> [good EXCEPT !.id = i]] : n \in 0..MaxTemplates}
        \cup {[i \in 1..MaxTemplates |-> [(IF i = k THEN bad ELSE good) EXCEPT !.id = i]]
                : k \in {1, MaxTemplates},
                  bad \in {[good EXCEPT !.project = ProjectValue(TRUE, "NoneType", 0)],
                           [good EXCEPT !.project = ProjectValue(FALSE, "NoneType", 0)],
                           [good EXCEPT !.extra_vars = ExtraVars(TRUE, "str", <<"[", "1", "]">>)]}}

\* Mutation: the page number is not passed on.
ListParams_FirstPage(page, page_size) == [page |-> 1, page_size |-> page_size, order_by |-> None]

\* params = {"page": page, "page_size": page_size}
ListParams(page, page_size) == [page |-> page, page_size |-> page_size, order_by |-> None]

\* JobTemplate(id=item["id"], name=item["name"], ..., project=item["project"],
\* playbook=item["playbook"], extra_vars=self._parse_extra_vars(item.get("extra_vars", {}))),
\* in list_job_templates and in get_job_template: item["project"] raises KeyError
\* when the key is missing; the model's `project: int` refuses null and its
\* `extra_vars: dict[str, Any]` refuses what is no dict, with one ValidationError
\* that lists every refused field.
JobTemplate(item) ==
    LET extra_vars == ParseExtraVars(item.extra_vars)
        project == IF item.project.type # "int"
                   THEN <<"project", "Input should be a valid integer", item.project.type>>
                   ELSE <<>>
        extra == IF extra_vars.type # "dict"
                 THEN <<"extra_vars", "Input should be a valid dictionary", extra_vars.type>>
                 ELSE <<>>
    IN  IF ~item.project.present THEN Raised(ToolErr("KeyError", "'project'", NoText))
        ELSE IF project \o extra # <<>>
        THEN Raised(ToolErr("ValidationError",
                            IF project # <<>> /\ extra # <<>>
                            THEN "2 validation errors for JobTemplate"
                            ELSE "1 validation error for JobTemplate",
                            project \o extra))
        ELSE Returned([id |-> item.id, name |-> item.name, project |-> item.project.id,
                       playbook |-> item.playbook, extra_vars |-> extra_vars])

\* What list_job_templates makes of the data _request handed it:
\* data.get("results", []) turned into JobTemplate objects one by one; the first
\* item that cannot be converted ends the call with its error.
ListResult(data) ==
    IF data.kind = "raise" THEN data
    ELSE IF data.value.type # "object"
    THEN Raised(Err("AttributeError", "'list' object has no attribute 'get'", None, 0, None))
    ELSE LET results == IF data.value.has_results THEN data.value.results ELSE <<>>
             failing == {i \in 1..Len(results) : JobTemplate(results[i]).kind = "raise"}
         IN  IF failing # {}
             THEN JobTemplate(results[CHOOSE i \in failing : \A j \in failing : i <= j])
             ELSE Returned([i \in 1..Len(results) |-> JobTemplate(results[i]).value])

\* A caller invokes list_job_templates(page=page, page_size=page_size).
ListJobTemplates ==
    /\ pc = "idle"
    /\ so_pc = "idle"
    \* lt_calls holds the arguments of each call and, once it is over, its result.
    /\ Len(lt_calls) < MaxListCalls
    /\ \E page \in 1..2, page_size \in {5} :
        /\ params' = ListParams(page, page_size)
        /\ lt_calls' = Append(lt_calls, [page |-> page, page_size |-> page_size,
                                          result |-> NoOutcome])
    /\ method' = "GET"
    /\ endpoint' = "/api/v2/job_templates/"
    /\ caller' = "list_job_templates"
    /\ pc' = "attempt"
    /\ attempt_number' = 1
    /\ UNCHANGED <<build, calls, sleeps, outcome, stdoutVars, extraVars, analysisVars,
                   updateVars, lt_templates, configVars, toolVars>>

\* _request is over: list_job_templates builds its result and returns.
ListFinish ==
    /\ pc = "done"
    /\ caller = "list_job_templates"
    /\ lt_calls' = [lt_calls EXCEPT ![Len(lt_calls)].result = ListResult(outcome)]
    /\ pc' = "idle"
    /\ UNCHANGED <<build, caller, method, endpoint, params, attempt_number, calls, sleeps,
                   outcome, stdoutVars, extraVars, analysisVars, updateVars,
                   lt_templates, configVars, toolVars>>

\* The state before any call, against a controller holding one of the listings
\* `templates` and a host set up as one of `inputs`.
InitWith(templates, inputs) ==
    /\ build \in Builds
    /\ pc = "idle"
    /\ caller = None
    /\ method = None
    /\ endpoint = None
    /\ params = NoParams
    /\ attempt_number = 0
    /\ calls = <<>>
    /\ sleeps = <<>>
    /\ outcome = NoOutcome
    /\ jobEvents = <<>>
    /\ tail_lines = NoTail
    /\ so_pc = "idle"
    /\ so_result = NoOutcome
    /\ so_full = NoText
    /\ ev_input = NoEvInput
    /\ ev_result = NoOutcome
    /\ AnalysisIdle
    /\ UpdateIdle
    /\ cfg_envs = <<>>
    /\ cfg_active = None
    /\ cfg_op = NoCall
    /\ cfg_result = NoOutcome
    /\ lt_templates \in templates
    /\ lt_calls = <<>>
    /\ tl_pc = "idle"
    /\ tl_in \in inputs
    /\ tl_client = NoClient
    /\ tl_log = <<>>
    /\ tl_sent = <<>>
    /\ tl_pending = NoOutcome
    /\ tl_result = NoOutcome

InitList == InitWith(TemplateLists, {NoToolInput})

NextList == ListJobTemplates \/ RequestAttempt \/ ListFinish

SpecList == InitList /\ [][NextList]_vars

\* The ids of the templates a finished call returned.
Ids(call) == {call.result.value[i].id : i \in 1..Len(call.result.value)}

\* The call asked for this page with page_size=5 and returned a list.
ReturnedPage(call, page) ==
    call.page = page /\ call.page_size = 5 /\ call.result.kind = "return"

\* C23: with more than 5 templates upstream, list_job_templates(page=1, page_size=5) and
\* list_job_templates(page=2, page_size=5) return no template id in common, each
\* returning the results entries of the page it asked for and nothing else.
C23_PagesDisjoint ==
    \A i, j \in 1..Len(lt_calls) :
        (Len(lt_templates) > 5 /\ ReturnedPage(lt_calls[i], 1) /\ ReturnedPage(lt_calls[j], 2)) =>
            /\ Ids(lt_calls[i]) \cap Ids(lt_calls[j]) = {}
            /\ lt_calls[i].result.value = [k \in 1..5 |-> JobTemplate(lt_templates[k]).value]
            /\ lt_calls[j].result.value =
                    [k \in 1..(Len(lt_templates) - 5) |->
                        JobTemplate(lt_templates[5 + k]).value]

\* Both pages of a listing of seven templates were returned: five ids, then two.
C23_Witness ==
    /\ Len(lt_templates) = 7
    /\ Len(lt_calls) = 2
    /\ ReturnedPage(lt_calls[1], 1)
    /\ ReturnedPage(lt_calls[2], 2)
    /\ Cardinality(Ids(lt_calls[1])) = 5
    /\ Cardinality(Ids(lt_calls[2])) = 2

----
\* The awx_job_launch tool of the MCP server (mcp_server.py): call_tool's log line,
\* get_active_client, get_job_template, check_allowlist, launch_job, the end of
\* `async with client:`. Messages and log lines are texts (sequences of words);
\* every attempt of a _request is a step of its own.

\* The secrets a keyring entry or a variable can hold: a token, and the same token
\* with the line break a file or a shell substitution leaves at its end.
Secrets == {<<"hunter2">>, <<"hunter2", NL>>}

\* The arguments of a call, as the caller wrote them.
Arguments ==
    {<<"{'template_id': 1}">>,
     <<"{'template_id': 1, 'extra_vars': {'db_password': '", "swordfish", "'}}">>}

ToolInputs ==
    {ToolInput(active, allowed, Keyring(username, password, token),
               Environ(base_url, env_token, env_user, env_password), template, arguments) :
        active \in BOOLEAN, allowed \in {{}, {"deploy"}},
        username \in {NoText, <<"admin">>}, password \in {NoText, <<"hunter2">>},
        token \in {NoText} \cup Secrets,
        base_url \in {NoText, <<"https://awx.example.com">>},
        env_token \in {NoText} \cup Secrets,
        env_user \in {NoText, <<"admin">>}, env_password \in {NoText, <<"hunter2">>},
        template \in {"deploy", "other"}, arguments \in Arguments}

\* str(e)
Str(e) == IF e.detail = NoText THEN <<e.msg>> ELSE <<e.msg>> \o e.detail

\* CredentialStore.get_credential(env_id, credential_type)
GetCredential(keyring, credential_type) ==
    IF credential_type = "password"
    THEN IF keyring.username = NoText \/ keyring.password = NoText
         THEN Raised(ToolErr("CredentialError", "Credential not found for environment", NoText))
         ELSE Returned([username |-> keyring.username, secret |-> keyring.password])
    ELSE IF keyring.token = NoText
         THEN Raised(ToolErr("CredentialError", "Token not found for environment", NoText))
         ELSE Returned([username |-> NoText, secret |-> keyring.token])

\* What get_active_client does: the client it returns or the error it raises,
\* and the log lines it writes.
Resolved(client, log) == [client |-> client, log |-> log]

\* Mutation: the token-type credential is looked up first.
StoredClient_TokenFirst(in) ==
    LET password == GetCredential(in.keyring, "password")
        token == GetCredential(in.keyring, "token")
    IN  IF ~in.active
        THEN Raised(ToolErr("NoActiveEnvironmentError", "No active environment set", NoText))
        ELSE IF token.kind = "return"
        THEN Returned(Client("store", in.allowed, NoText, token.value.secret, TRUE))
        ELSE IF password.kind = "return"
        THEN Returned(Client("store", in.allowed, password.value.username,
                             password.value.secret, FALSE))
        ELSE password

\* Lines 51-64 of get_active_client: the active stored environment with its
\* password-type credential, or its token-type credential when that lookup raised.
StoredClient(in) ==
    LET password == GetCredential(in.keyring, "password")
        token == GetCredential(in.keyring, "token")
    IN  IF ~in.active
        THEN Raised(ToolErr("NoActiveEnvironmentError", "No active environment set", NoText))
        ELSE IF password.kind = "return"
        THEN Returned(Client("store", in.allowed, password.value.username,
                             password.value.secret, FALSE))
        ELSE IF token.kind = "return"
        THEN Returned(Client("store", in.allowed, NoText, token.value.secret, TRUE))
        ELSE token

\* Lines 66-107 of get_active_client: whatever the stored path raised is logged and
\* the client is built from the AWX_* variables, for an environment named
\* "default" that allows every template.
EnvironClient(environ, e) ==
    LET found == <<"No stored environment found, checking environment variables: ">> \o Str(e)
        variables ==
            <<"Environment variables: AWX_BASE_URL=">> \o environ.base_url
                \o <<", AWX_TOKEN=", IF environ.token = NoText THEN "None" ELSE "**********">>
                \o <<", AWX_USERNAME=">> \o environ.username
    IN  IF environ.base_url = NoText
        THEN Resolved(Raised(ToolErr("NoActiveEnvironmentError",
                      "No active environment configured and AWX_BASE_URL environment variable not set",
                      NoText)),
                      <<found, variables>>)
        ELSE IF environ.token # NoText
        THEN Resolved(Returned(Client("environ", {}, <<>>, environ.token, TRUE)),
                      <<found, variables, <<"Using AWX_TOKEN from environment variables">>>>)
        ELSE IF environ.username # NoText /\ environ.password # NoText
        THEN Resolved(Returned(Client("environ", {}, environ.username, environ.password, FALSE)),
                      <<found, variables,
                        <<"Using AWX_USERNAME/AWX_PASSWORD from environment variables">>>>)
        ELSE Resolved(Raised(ToolErr("NoActiveEnvironmentError",
                      "No active environment configured and neither AWX_TOKEN nor AWX_USERNAME/AWX_PASSWORD set",
                      NoText)),
                      <<found, variables>>)

\* get_active_client()
GetActiveClient(in) ==
    IF StoredClient(in).kind = "return"
    THEN Resolved(StoredClient(in), <<>>)
    ELSE EnvironClient(in.environ, StoredClient(in).error)

\* check_allowlist(env, template_id, template_name) raises.
AllowlistViolation(allowed, template_name) == allowed # {} /\ template_name \notin allowed

\* The header {"Authorization": f"Bearer {secret}"} can be sent: the HTTP library
\* refuses a header value with a line break in it before anything is sent,
\* raising LocalProtocolError("Illegal header value b'Bearer ...'").
LegalHeaderValue(secret) == \A i \in 1..Len(secret) : secret[i] # NL

\* The extra_vars of the bodies the controller answers the tool's requests with:
\* no entry, an object, null, and the text of a JSON object or list.
ToolExtraVars ==
    {ExtraVars(FALSE, "dict", <<"{", "}">>), ExtraVars(TRUE, "dict", <<"{", "}">>),
     ExtraVars(TRUE, "NoneType", <<"null">>), ExtraVars(TRUE, "str", <<"{", "}">>),
     ExtraVars(TRUE, "str", <<"[", "1", "]">>)}

\* The bodies the controller answers GET job_templates/1/ with, for a template
\* of the given name.
TemplateData(name) ==
    {[TemplateItem(1, project, extra_vars) EXCEPT !.name = name] :
        project \in {ProjectValue(TRUE, "int", 7), ProjectValue(TRUE, "NoneType", 0),
                     ProjectValue(FALSE, "NoneType", 0)},
        extra_vars \in ToolExtraVars}

\* The bodies the controller answers the launch POST with: the status of the new
\* job and its extra_vars.
JobData == {[status |-> status, extra_vars |-> x] : status \in {"pending", "new"}, x \in ToolExtraVars}

\* JobStatus: the statuses the enum has a member for.
JobStatuses == {"pending", "waiting", "running", "successful", "failed", "error", "canceled"}

\* _parse_job(data): JobStatus(data["status"]) raises ValueError for a status the
\* enum does not have; Job(...) refuses extra_vars that is no dict.
ParsedJob(b, data) ==
    LET extra_vars == JobExtraVars(b, data.extra_vars) IN
    IF data.status \notin JobStatuses
    THEN Raised(ToolErr("ValueError", "is not a valid JobStatus", <<data.status>>))
    ELSE IF extra_vars.type # "dict"
    THEN Raised(ToolErr("ValidationError", "1 validation error for Job",
                        <<"extra_vars", "Input should be a valid dictionary", extra_vars.type>>))
    ELSE Returned(<<"Job launched successfully">>)

\* How the controller and the network treat one attempt of the tool's client.
Answers == {"ok", "unauthorized", "unreachable"}

\* One attempt of _request by the tool's client: whether the request reached the
\* controller, the log line _request wrote (the bundled copy writes none) and
\* what the attempt raised or returned. The connection is opened before the
\* request's headers are written, so an unreachable controller is reported
\* whatever the header holds.
ClientAttempt(client, b, ep, answer) ==
    LET illegal == <<"Illegal header value b'Bearer ">> \o client.secret \o <<"'">>
        logged(line) == IF b = "server" THEN <<line>> ELSE <<>>
    IN  IF answer = "unreachable"
        THEN [sent |-> FALSE,
              log |-> logged(<<"Connection error to ", ep, ": ", "All connection attempts failed">>),
              result |-> Raised(ToolErr("AWXConnectionError", "Failed to connect to AWX: ",
                                        <<"All connection attempts failed">>))]
        ELSE IF client.is_token /\ ~LegalHeaderValue(client.secret)
        THEN [sent |-> FALSE,
              log |-> logged(<<"Unexpected error on ", ep, ": ">> \o illegal),
              result |-> Raised(ToolErr("AWXClientError", "Request failed: ", illegal))]
        ELSE IF answer = "unauthorized"
        THEN [sent |-> TRUE, log |-> <<>>,
              result |-> Raised(ToolErr("AWXAuthenticationError", "Authentication failed", NoText))]
        ELSE [sent |-> TRUE, log |-> <<>>, result |-> Returned(<<"ok">>)]

\* What the last attempt's exception becomes once the attempts are used up: the
\* exception itself with reraise=True, else tenacity's RetryError, whose text
\* names the class of the last exception only.
ClientExhausted(b, attempt) ==
    IF Reraise(b)
    THEN attempt
    ELSE Raised(ToolErr("RetryError", "RetryError[<Future state=finished raised ",
                        <<attempt.error.cls, ">]">>))

\* One step of a _request of the tool's client on ep: the attempt, and whether
\* _request is over with it (final) and with what; when it is not, the wait
\* before the next attempt follows.
ClientStep(ep, answer) ==
    LET r == ClientAttempt(tl_client, build, ep, answer) IN
    [sent |-> r.sent, log |-> r.log,
     final |-> ~RetryPredicate(r.result) \/ StopAfterAttempt(attempt_number),
     outcome |-> IF ~RetryPredicate(r.result) THEN r.result
                 ELSE ClientExhausted(build, r.result)]

\* The `async with client:` block is left with outcome o; the client is closed next.
LeaveBlock(o) ==
    /\ tl_pending' = o
    /\ tl_pc' = "close"
    /\ UNCHANGED attempt_number

\* call_tool's first statement, logger.info("tool_call", tool=name, arguments=arguments),
\* then env, client = get_active_client(); an exception is logged by call_tool's
\* handler and turned into the tool's answer.
ToolGetClient ==
    /\ tl_pc = "idle"
    /\ LET r == GetActiveClient(tl_in)
           called == <<"tool_call", "awx_job_launch">> \o tl_in.arguments
       IN  IF r.client.kind = "raise"
           THEN /\ tl_log' = tl_log \o <<called>> \o r.log
                            \o << <<"tool_error", "awx_job_launch">> \o Str(r.client.error) >>
                /\ tl_result' = r.client
                /\ tl_pc' = "done"
                /\ UNCHANGED tl_client
           ELSE /\ tl_client' = r.client.value
                /\ tl_log' = tl_log \o <<called>> \o r.log
                /\ tl_pc' = "template"
                /\ UNCHANGED tl_result
    /\ attempt_number' = 1
    /\ UNCHANGED <<build, pc, caller, method, endpoint, params, calls, sleeps, outcome,
                   stdoutVars, extraVars, analysisVars, updateVars,
                   configVars, listVars, tl_in, tl_sent, tl_pending>>

\* What follows get_job_template's _request: its exception leaves the block; its
\* answer data is turned into a JobTemplate, which may raise and leave the block;
\* the template goes to check_allowlist(env, template_id, template.name), whose
\* exception leaves the block too, and else launch_job is called.
AfterTemplate(o, data) ==
    LET template == IF o.kind = "raise" THEN o ELSE JobTemplate(data) IN
    IF template.kind = "raise"
    THEN LeaveBlock(template)
    ELSE IF AllowlistViolation(tl_client.allowed, template.value.name)
    THEN LeaveBlock(Raised(ToolErr("AllowlistViolationError", "Template not in allowlist",
                                   NoText)))
    ELSE /\ tl_pc' = "launch"
         /\ attempt_number' = 1
         /\ UNCHANGED tl_pending

\* template = await client.get_job_template(template_id), one attempt.
ToolGetTemplate ==
    /\ tl_pc = "template"
    /\ \E answer \in Answers, data \in TemplateData(tl_in.template) :
        LET r == ClientStep("/api/v2/job_templates/1/", answer) IN
        /\ tl_sent' = IF r.sent THEN Append(tl_sent, "get_job_template") ELSE tl_sent
        /\ tl_log' = tl_log \o r.log
        /\ IF r.final
           THEN /\ AfterTemplate(r.outcome, data)
                /\ UNCHANGED sleeps
           ELSE /\ sleeps' = Append(sleeps, WaitExponential(attempt_number))
                /\ attempt_number' = attempt_number + 1
                /\ UNCHANGED <<tl_pc, tl_pending>>
    /\ UNCHANGED <<build, pc, caller, method, endpoint, params, calls, outcome,
                   stdoutVars, extraVars, analysisVars, updateVars,
                   configVars, listVars, tl_in, tl_client, tl_result>>

\* What follows launch_job's _request: return self._parse_job(data); the block is
\* left with the job, with what _parse_job raised or with the exception of _request.
AfterLaunch(o, data) ==
    LeaveBlock(IF o.kind = "raise" THEN o ELSE ParsedJob(build, data))

\* job = await client.launch_job(...), one attempt.
ToolLaunch ==
    /\ tl_pc = "launch"
    /\ \E answer \in Answers, data \in JobData :
        LET r == ClientStep("/api/v2/job_templates/1/launch/", answer) IN
        /\ tl_sent' = IF r.sent THEN Append(tl_sent, "launch_job") ELSE tl_sent
        /\ tl_log' = tl_log \o r.log
        /\ IF r.final
           THEN /\ AfterLaunch(r.outcome, data)
                /\ UNCHANGED sleeps
           ELSE /\ sleeps' = Append(sleeps, WaitExponential(attempt_number))
                /\ attempt_number' = attempt_number + 1
                /\ UNCHANGED <<tl_pc, tl_pending>>
    /\ UNCHANGED <<build, pc, caller, method, endpoint, params, calls, outcome,
                   stdoutVars, extraVars, analysisVars, updateVars,
                   configVars, listVars, tl_in, tl_client, tl_result>>

\* The end of `async with client:`: __aexit__ has awaited self.client.aclose();
\* then the audit log line and the answer, or call_tool's handler of the
\* exception: logger.error("tool_error", ...) and the answer "Error: ...".
ToolClose ==
    /\ tl_pc = "close"
    /\ tl_log' = Append(tl_log,
                        IF tl_pending.kind = "raise"
                        THEN <<"tool_error", "awx_job_launch">> \o Str(tl_pending.error)
                        ELSE <<"job_launched", tl_in.template>>)
    /\ tl_result' = tl_pending
    /\ tl_pc' = "done"
    /\ UNCHANGED <<build, requestVars, stdoutVars, extraVars, analysisVars, updateVars,
                   configVars, listVars, tl_in, tl_client, tl_sent, tl_pending>>

InitTool == InitWith({<<>>}, ToolInputs)

NextTool == ToolGetClient \/ ToolGetTemplate \/ ToolLaunch \/ ToolClose

SpecTool == InitTool /\ [][NextTool]_vars

----
\* Properties of the tool layer (checked under SpecTool).

\* get_active_client has returned a client.
HasClient ==
    tl_pc \in {"template", "launch", "close"} \/ (tl_pc = "done" /\ tl_client.source # None)

\* The keyring holds a password-type credential.
PasswordAvailable == tl_in.keyring.username # NoText /\ tl_in.keyring.password # NoText

\* C21: the password or token given to the client appears in no log line and in no
\* error message.
C21_SecretNeverShown ==
    HasClient =>
        /\ \A i \in 1..Len(tl_log) : ~In(tl_client.secret, tl_log[i])
        /\ (tl_result.kind = "raise" => ~In(tl_client.secret, Str(tl_result.error)))

\* C22: for an active stored environment the password-type credential is tried first:
\* when it is available the client uses username/password auth with it, and a
\* bearer-token client is built only when the password lookup failed.
C22_PasswordFirst ==
    (HasClient /\ tl_in.active) =>
        /\ (PasswordAvailable =>
                /\ ~tl_client.is_token
                /\ tl_client.source = "store"
                /\ tl_client.username = tl_in.keyring.username
                /\ tl_client.secret = tl_in.keyring.password)
        /\ (tl_client.is_token => ~PasswordAvailable)
        /\ ((tl_client.is_token /\ tl_in.keyring.token # NoText) =>
                (tl_client.source = "store" /\ tl_client.secret = tl_in.keyring.token))

\* The keyring holds both kinds of credential and the client was built with the password.
C22_Witness ==
    /\ HasClient
    /\ tl_in.active
    /\ PasswordAvailable
    /\ tl_in.keyring.token # NoText
    /\ tl_in.keyring.token # tl_in.keyring.password
    /\ ~tl_client.is_token
    /\ tl_client.secret = tl_in.keyring.password

\* C27: when the active stored environment has a non-empty allow-list, no launch
\* request is sent for a template whose name is not in it.
C27_LaunchOnlyAllowed ==
    (tl_in.active /\ tl_in.allowed # {} /\ \E i \in 1..Len(tl_sent) : tl_sent[i] = "launch_job") =>
        tl_in.template \in tl_in.allowed

====
